---- MODULE Spec2Model ----
(***************************************************************************)
(* Authentication and session lifecycle of gin-erp: the Auth use case      *)
(* (Register, Login, VerifyOTP, RefreshToken, ResendOTP) over the MongoDB  *)
(* user and refresh-token collections and the Redis OTP store.  Every      *)
(* request is served by its own worker; a worker's step is one store call  *)
(* together with the local computation that follows it.                    *)
(***************************************************************************)
EXTENDS Integers, Sequences, FiniteSets, TLC

VARIABLES
    users,          \* the "users" collection, in insertion order; _id = position
    refreshTokens,  \* the "refresh_tokens" collection, in insertion order
    otps,           \* Redis keys "otp:<email>": email -> [code, expiresAt] or NoOTP
    outbox,         \* what EmailService.SendOTP was asked to send: {<<email, code>>}
    now,            \* the wall clock, in seconds
    ticks,          \* how often the clock has advanced
    calls,          \* how many use-case calls have been started
    pc,             \* per worker: the store call it is about to make, or "idle"
    loc,            \* per worker: the request and the locals of its current/last call
    ret,            \* per worker: what its last finished call returned
    held,           \* the tokens that calls have returned to clients
    otpPassed,      \* emails for which a VerifyOTP matched the stored code
    down,           \* the backing services that are unreachable: a subset of Services
    rateLimits      \* Redis keys "rate_limit:<key>": key -> [count, expiresAt]

vars == <<users, refreshTokens, otps, outbox, now, ticks, calls, pc, loc, ret, held, otpPassed,
          down, rateLimits>>

-----------------------------------------------------------------------------
(* Bounds of the model *)

MaxRegisterCalls == 3
MaxCalls == 4
MaxLoginTicks == 1
MaxVerifyCalls == 3
MaxTicks == 1
MaxRotationCalls == 5
MaxRotationTicks == 2
MaxExpiryCalls == 5
MaxExpiryTicks == 2
MaxOutageCalls == 3
MaxOutageTicks == 1
MaxLimiterCalls == 6
MaxLimiterTicks == 1
MaxSequentialCalls == 7
MaxBusyCalls == 7
MaxBusyTicks == 1
MaxSequentialTicks == 2
MaxTokenCalls == 2
MaxTokenTicks == 1
MaxStoreCalls == 5
MaxStoreTicks == 1
MaxSessionCalls == 5
MaxSessionTicks == 1
MaxPhoneCalls == 3
MaxRouteCalls == 6
MaxProtectedCalls == 11

Workers == {"w1", "w2"}

(* Configuration injected at construction *)
otpLength == 6
otpExpireMinutes == 5
RefreshTokenExpireHours == 168
AccessTokenExpireMinutes == 15
secretKey == "change-this-secret-key"

SecondsPerMinute == 60
SecondsPerHour == 3600

refreshTokenExpiration == RefreshTokenExpireHours * SecondsPerHour
accessTokenExpiration == AccessTokenExpireMinutes * SecondsPerMinute
LoginRequestsPerMinute == 5
loginWindowSeconds == 60
RequestsPerMinute == 10
globalWindowSeconds == 60

-----------------------------------------------------------------------------
(* Strings the code inspects character by character are sequences of       *)
(* one-character strings.                                                  *)

Digits == {"0", "1", "2", "3", "4", "5", "6", "7", "8", "9"}

HasPrefix(s, p) == Len(s) >= Len(p) /\ SubSeq(s, 1, Len(p)) = p

KeepChar(c) == c \notin {" ", "-"}

\* strings.ReplaceAll(phone, " ", "") then strings.ReplaceAll(phone, "-", "")
StripSeparators(s) == SelectSeq(s, KeepChar)

NormalizeLocalFormOnly(phone) ==
    LET p0 == StripSeparators(phone)
    IN  IF HasPrefix(p0, <<"0", "3">>)
        THEN <<"+", "9", "2">> \o SubSeq(p0, 2, Len(p0))
        ELSE p0

NormalizeKeepsSeparators(phone) ==
    LET p1 == IF HasPrefix(phone, <<"0", "3">>)
              THEN <<"+", "9", "2">> \o SubSeq(phone, 2, Len(phone))
              ELSE phone
    IN  IF HasPrefix(p1, <<"9", "2">>) /\ ~HasPrefix(p1, <<"+", "9", "2">>)
        THEN <<"+">> \o p1
        ELSE p1

NormalizePakistaniPhone(phone) ==
    LET p0 == StripSeparators(phone)
        p1 == IF HasPrefix(p0, <<"0", "3">>)
              THEN <<"+", "9", "2">> \o SubSeq(p0, 2, Len(p0))
              ELSE p0
    IN  IF HasPrefix(p1, <<"9", "2">>) /\ ~HasPrefix(p1, <<"+", "9", "2">>)
        THEN <<"+">> \o p1
        ELSE p1

\* ^\+923[0-9]{9}$ after removing spaces and dashes
ValidatePakistaniPhone(phone) ==
    LET p == StripSeparators(phone)
    IN  /\ Len(p) = 13
        /\ SubSeq(p, 1, 4) = <<"+", "9", "2", "3">>
        /\ \A i \in 5..13 : p[i] \in Digits

ValidRoles == {"admin", "customer", "finance_manager", "manager"}

IsValidRole(role) == role \in ValidRoles

\* bcrypt: CheckPassword(hash, p) holds exactly for the hash of p
HashPassword(password) == <<"bcrypt", password>>

CheckPassword(hash, password) == hash = HashPassword(password)

\* crypto/rand digits; the model draws from the codes made of one sample digit
OTPSampleDigits == {"4", "7"}

GenerateOTP(length) ==
    IF length <= 0 THEN {}
    ELSE {[i \in 1..length |-> d] : d \in OTPSampleDigits}

-----------------------------------------------------------------------------
(* Errors *)

ErrInvalidCredentials == "invalid email or password"
ErrUserAlreadyExists  == "user with this email already exists"
ErrPhoneAlreadyExists == "user with this phone number already exists"
ErrUserNotFound       == "user not found"
ErrUserNotVerified    == "user email not verified"
ErrUserInactive       == "user account is inactive"
ErrInvalidToken       == "invalid token"
ErrExpiredToken       == "token has expired"
ErrRevokedToken       == "token has been revoked"
ErrInvalidOTP         == "invalid OTP code"
ErrOTPNotFound        == "OTP not found"
ErrOTPAlreadySent     == "OTP already sent, please wait before requesting again"
ErrInvalidPhoneFormat == "invalid Pakistani phone number format (expected: +923xxxxxxxxx)"
ErrInvalidRole        == "invalid role"
ErrBadRequest         == "bad request"
\* the MongoDB server's duplicate-key write error, passed through unmapped
ErrDuplicateKey       == "E11000 duplicate key error"
\* the go-redis error of an unreachable server, returned as it is
ErrRedis              == "dial tcp: connection refused"
\* the MongoDB driver's error of an unreachable server, returned as it is
ErrMongo              == "server selection error: context deadline exceeded"
ErrInternalServer     == "internal server error"
ErrTooManyLoginAttempts == "Too many login attempts. Please try again later."
ErrRateLimitExceeded  == "rate limit exceeded, please try again later"
ErrUnauthorized       == "unauthorized"
ErrForbidden          == "forbidden: insufficient permissions"
ErrOTPLength          == "OTP length must be positive"
nil                   == "nil"

-----------------------------------------------------------------------------
(* Records *)

NoUser == [id |-> 0, email |-> "", phone |-> <<>>, password |-> <<>>, role |-> "",
           isVerified |-> FALSE, isActive |-> FALSE, lastLogin |-> -1]

NoToken == [userID |-> 0, email |-> "", role |-> "", exp |-> 0, iat |-> 0,
            nbf |-> 0, alg |-> "", key |-> ""]

NoRow == [userID |-> 0, token |-> NoToken, expiresAt |-> 0, isRevoked |-> FALSE]

NoOTP == [code |-> <<>>, expiresAt |-> -1]

\* JWTClaims without the registered claims
NoClaims == [userID |-> 0, email |-> "", role |-> ""]

\* an absent rate-limit key; expiresAt = -1: the key has no TTL; since: the
\* time of the increment that created the key
NoCounter == [count |-> 0, expiresAt |-> -1, since |-> -1]

\* at: the step that returned
NoRet == [op |-> "", err |-> nil, at |-> "", access |-> NoToken, refresh |-> NoToken]

NoLoc == [op |-> "", email |-> "", phone |-> <<>>, normalizedPhone |-> <<>>,
          password |-> "", role |-> "", code |-> <<>>, token |-> NoToken,
          user |-> NoUser, otp |-> <<>>, storedOTP |-> <<>>, row |-> NoRow,
          access |-> NoToken, refresh |-> NoToken, fresh |-> FALSE, first |-> FALSE,
          left |-> NoOTP, deleted |-> FALSE, recovers |-> FALSE, revoked |-> FALSE,
          expired |-> FALSE, key |-> <<>>, count |-> 0, elapsed |-> FALSE,
          counted |-> 0, claims |-> NoClaims, time |-> -1, unreachable |-> FALSE,
          renormalized |-> <<>>, route |-> "", header |-> <<>>, ip |-> ""]

-----------------------------------------------------------------------------
(* Inputs *)

ClientIPs == {"10.0.0.1", "10.0.0.2"}

TokenUserIDs == {1, 2}

\* the login limiter's keys, "login:ip:" + c.ClientIP(), and the global
\* limiter's, "ip:" + c.ClientIP() and "user:" + user_id
RateLimitKeys ==
    {<<prefix, ip>> : prefix \in {"login:ip:", "ip:"}, ip \in ClientIPs}
        \cup {<<"user:", ToString(id)>> : id \in TokenUserIDs}

Emails == {"a@x.com", "b@x.com"}

PhoneLocal   == <<"0", "3", "0", "0", "1", "2", "3", "4", "5", "6", "7">>
PhoneIntl    == <<"+", "9", "2", "3", "0", "0", "1", "2", "3", "4", "5", "6", "7">>
PhoneOther   == <<"9", "2", "3", "0", "0", "-", "1", "2", "3", "4", "5", "6", "8">>
PhoneShort   == <<"+", "9", "2", "3", "0", "1", "2", "3", "4", "5", "6", "7">>

Phones == {PhoneLocal, PhoneIntl, PhoneOther, PhoneShort}

\* mobile numbers without country code and without trunk "0": 3XXXXXXXXX
NationalNumbers == {<<"3", "0", "0", "1", "2", "3", "4", "5", "6", "7">>,
                    <<"3", "4", "5", "1", "2", "3", "4", "5", "6", "7">>}

\* "03XXXXXXXXX", "923XXXXXXXXX" and "+923XXXXXXXXX"
SurfaceForms(n) == {<<"0">> \o n, <<"9", "2">> \o n, <<"+", "9", "2">> \o n}

PhoneInputs == UNION {SurfaceForms(n) : n \in NationalNumbers} \cup {PhoneShort}

Passwords == {"Password123", "WrongPassword"}

RoleInputs == {"customer", "superuser"}

RegisterRequests ==
    [email : Emails, phone : Phones, password : {"Password123"}, role : RoleInputs]

-----------------------------------------------------------------------------
(* Credential store (MongoDB "users", unique indexes on email and on phone) *)

UserIdx == 1..Len(users)

\* collection.FindOne(bson.M{"email": email}): the first match, or NoUser
FindByEmail(email) ==
    IF \E i \in UserIdx : users[i].email = email
    THEN users[CHOOSE i \in UserIdx :
                 /\ users[i].email = email
                 /\ \A j \in UserIdx : users[j].email = email => i <= j]
    ELSE NoUser

FindByPhone(phone) ==
    IF \E i \in UserIdx : users[i].phone = phone
    THEN users[CHOOSE i \in UserIdx :
                 /\ users[i].phone = phone
                 /\ \A j \in UserIdx : users[j].phone = phone => i <= j]
    ELSE NoUser

FindByID(id) == IF id \in UserIdx THEN users[id] ELSE NoUser

\* without the unique index on email
UserDuplicateKeyNoEmailIndex(user) ==
    \E i \in UserIdx : users[i].phone = user.phone

\* without the unique index on phone
UserDuplicateKeyNoPhoneIndex(user) ==
    \E i \in UserIdx : users[i].email = user.email

\* the unique indexes of CreateIndexes: InsertOne fails with a duplicate key
UserDuplicateKey(user) ==
    \E i \in UserIdx : users[i].email = user.email \/ users[i].phone = user.phone

-----------------------------------------------------------------------------
(* OTP store (Redis keys with a TTL) *)

\* a key that never expires
OTPLiveIgnoresTTL(email) == otps[email] # NoOTP

OTPLiveOneSecondShort(email) == otps[email] # NoOTP /\ now + 1 < otps[email].expiresAt

Services == {"redis"}

Up(service) == service \notin down

\* redis GET: a key past its TTL is absent
OTPLive(email) == otps[email] # NoOTP /\ now < otps[email].expiresAt

-----------------------------------------------------------------------------
(* Workers *)

Started(op) == calls' = calls + 1

Return(w, op, err, access, refresh) ==
    /\ pc' = [pc EXCEPT ![w] = "idle"]
    /\ ret' = [ret EXCEPT ![w] = [op |-> op, err |-> err, at |-> pc[w],
                                  access |-> access, refresh |-> refresh]]
    /\ held' = held \cup ({access, refresh} \ {NoToken})

Fail(w, err) == Return(w, loc[w].op, err, NoToken, NoToken)

Goto(w, label) ==
    /\ pc' = [pc EXCEPT ![w] = label]
    /\ UNCHANGED <<ret, held>>

Init ==
    /\ users = <<>>
    /\ refreshTokens = <<>>
    /\ otps = [e \in Emails |-> NoOTP]
    /\ outbox = {}
    /\ now = 0
    /\ ticks = 0
    /\ calls = 0
    /\ pc = [w \in Workers |-> "idle"]
    /\ loc = [w \in Workers |-> NoLoc]
    /\ ret = [w \in Workers |-> NoRet]
    /\ held = {}
    /\ otpPassed = {}
    /\ down = {}
    /\ rateLimits = [k \in RateLimitKeys |-> NoCounter]

-----------------------------------------------------------------------------
(* Register *)

\* a worker takes the request
Register(w, req) ==
    /\ pc[w] = "idle"
    /\ Started("Register")
    /\ loc' = [loc EXCEPT ![w] =
                 [NoLoc EXCEPT !.op = "Register", !.email = req.email,
                               !.phone = req.phone, !.password = req.password,
                               !.role = req.role,
                               !.fresh = (FindByEmail(req.email) = NoUser
                                          /\ FindByPhone(NormalizePakistaniPhone(req.phone))
                                               = NoUser)]]
    /\ Goto(w, "Register_Validate")
    /\ UNCHANGED <<users, refreshTokens, otps, outbox, now, ticks, otpPassed, down, rateLimits>>

\* the role validated before the phone
RegisterValidateRoleFirst(w) ==
    /\ pc[w] = "Register_Validate"
    /\ LET normalizedPhone == NormalizePakistaniPhone(loc[w].phone)
       IN  /\ loc' = [loc EXCEPT ![w].normalizedPhone = normalizedPhone]
           /\ IF ~IsValidRole(loc[w].role)
              THEN Fail(w, ErrInvalidRole)
              ELSE IF ~ValidatePakistaniPhone(normalizedPhone)
              THEN Fail(w, ErrInvalidPhoneFormat)
              ELSE Goto(w, "Register_FindByEmail")
    /\ UNCHANGED <<users, refreshTokens, otps, outbox, now, ticks, calls, otpPassed, down,
                   rateLimits>>

\* phone and role are validated before any store call
RegisterValidate(w) ==
    /\ pc[w] = "Register_Validate"
    /\ LET normalizedPhone == NormalizePakistaniPhone(loc[w].phone)
       IN  /\ loc' = [loc EXCEPT ![w].normalizedPhone = normalizedPhone]
           /\ IF ~ValidatePakistaniPhone(normalizedPhone)
              THEN Fail(w, ErrInvalidPhoneFormat)
              ELSE IF ~IsValidRole(loc[w].role)
              THEN Fail(w, ErrInvalidRole)
              ELSE Goto(w, "Register_FindByEmail")
    /\ UNCHANGED <<users, refreshTokens, otps, outbox, now, ticks, calls, otpPassed, down,
                   rateLimits>>

RegisterFindByEmail(w) ==
    /\ pc[w] = "Register_FindByEmail"
    /\ IF Up("mongo") /\ FindByEmail(loc[w].email) # NoUser
       THEN Fail(w, ErrUserAlreadyExists)
       ELSE Goto(w, "Register_FindByPhone")
    /\ UNCHANGED <<users, refreshTokens, otps, outbox, now, ticks, calls, loc, otpPassed,
                   down, rateLimits>>

RegisterFindByPhone(w) ==
    /\ pc[w] = "Register_FindByPhone"
    /\ IF Up("mongo") /\ FindByPhone(loc[w].normalizedPhone) # NoUser
       THEN Fail(w, ErrPhoneAlreadyExists)
       ELSE Goto(w, "Register_Create")
    /\ UNCHANGED <<users, refreshTokens, otps, outbox, now, ticks, calls, loc, otpPassed,
                   down, rateLimits>>

\* IsActive left at its zero value
NewUserZeroIsActive(w) ==
    [id |-> Len(users) + 1, email |-> loc[w].email, phone |-> loc[w].normalizedPhone,
     password |-> HashPassword(loc[w].password), role |-> loc[w].role,
     isVerified |-> FALSE, isActive |-> FALSE, lastLogin |-> -1]

\* the user entity Register builds, with the _id InsertOne assigns
NewUser(w) ==
    [id |-> Len(users) + 1, email |-> loc[w].email, phone |-> loc[w].normalizedPhone,
     password |-> HashPassword(loc[w].password), role |-> loc[w].role,
     isVerified |-> FALSE, isActive |-> TRUE, lastLogin |-> -1]

RegisterCreate(w) ==
    /\ pc[w] = "Register_Create"
    /\ IF ~Up("mongo")
       THEN /\ Fail(w, ErrMongo)
            /\ UNCHANGED <<users, loc>>
       ELSE IF UserDuplicateKey(NewUser(w))
       THEN /\ Fail(w, ErrUserAlreadyExists)
            /\ UNCHANGED <<users, loc>>
       ELSE /\ users' = Append(users, NewUser(w))
            /\ loc' = [loc EXCEPT ![w].user = NewUser(w)]
            /\ Goto(w, "Register_StoreOTP")
    /\ UNCHANGED <<refreshTokens, otps, outbox, now, ticks, calls, otpPassed, down, rateLimits>>

\* the TTL taken for seconds
OTPStoreTTLInSeconds(email, code, ttlMinutes) ==
    otps' = [otps EXCEPT ![email] = [code |-> code, expiresAt |-> now + ttlMinutes]]

\* redis SET key value EX ttl: overwrite and restart the TTL
OTPStore(email, code, ttlMinutes) ==
    otps' = [otps EXCEPT ![email] =
               [code |-> code, expiresAt |-> now + ttlMinutes * SecondsPerMinute]]

RegisterStoreOTP(w) ==
    /\ pc[w] = "Register_StoreOTP"
    /\ IF GenerateOTP(otpLength) = {}
       THEN /\ Fail(w, ErrOTPLength)
            /\ UNCHANGED <<otps, loc>>
       ELSE IF ~Up("redis")
       THEN /\ Fail(w, ErrRedis)
            /\ UNCHANGED <<otps, loc>>
       ELSE \E otp \in GenerateOTP(otpLength) :
               /\ OTPStore(loc[w].email, otp, otpExpireMinutes)
               /\ loc' = [loc EXCEPT ![w].otp = otp]
               /\ Goto(w, "Register_SendOTP")
    /\ UNCHANGED <<users, refreshTokens, outbox, now, ticks, calls, otpPassed, down, rateLimits>>

SendOTP(email, code) == outbox' = outbox \cup {<<email, code>>}

RegisterSendOTP(w) ==
    /\ pc[w] = "Register_SendOTP"
    /\ SendOTP(loc[w].email, loc[w].otp)
    /\ Fail(w, nil)
    /\ UNCHANGED <<users, refreshTokens, otps, now, ticks, calls, loc, otpPassed, down, rateLimits>>

-----------------------------------------------------------------------------
(* Token issuer (HMAC-SHA256 JWT).  The signed string is a function of the  *)
(* claims, the algorithm and the key, so a token is modelled by them.       *)

\* jwt.NewNumericDate truncates to whole seconds
GenerateAccessTokenWithoutRole(userID, email, role) ==
    [userID |-> userID, email |-> email, role |-> "",
     exp |-> now + accessTokenExpiration, iat |-> now, nbf |-> now,
     alg |-> "HS256", key |-> secretKey]

GenerateAccessToken(userID, email, role) ==
    [userID |-> userID, email |-> email, role |-> role,
     exp |-> now + accessTokenExpiration, iat |-> now, nbf |-> now,
     alg |-> "HS256", key |-> secretKey]

GenerateRefreshToken(userID) ==
    [userID |-> userID, email |-> "", role |-> "",
     exp |-> now + refreshTokenExpiration, iat |-> now, nbf |-> now,
     alg |-> "HS256", key |-> secretKey]

\* the JWTClaims that ParseWithClaims decodes from the token
ParseClaims(token) == [userID |-> token.userID, email |-> token.email, role |-> token.role]

\* jwt.ParseWithClaims: HMAC method, signature under secretKey, nbf <= now < exp
ValidateToken(token) ==
    /\ token.alg \in {"HS256", "HS384", "HS512"}
    /\ token.key = secretKey
    /\ now < token.exp
    /\ now >= token.nbf

-----------------------------------------------------------------------------
(* The token issuer called on its own: a token is generated, then validated *)

\* user: the arguments of the call
CallGenerateAccessToken(w, userID, email, role) ==
    /\ pc[w] = "idle"
    /\ Started("GenerateAccessToken")
    /\ loc' = [loc EXCEPT ![w] =
                 [NoLoc EXCEPT !.op = "GenerateAccessToken",
                               !.user = [NoUser EXCEPT !.id = userID, !.email = email,
                                                       !.role = role],
                               !.token = GenerateAccessToken(userID, email, role)]]
    /\ Goto(w, "ValidateToken")
    /\ UNCHANGED <<users, refreshTokens, otps, outbox, now, ticks, otpPassed, down, rateLimits>>

CallGenerateRefreshToken(w, userID) ==
    /\ pc[w] = "idle"
    /\ Started("GenerateRefreshToken")
    /\ loc' = [loc EXCEPT ![w] =
                 [NoLoc EXCEPT !.op = "GenerateRefreshToken",
                               !.user = [NoUser EXCEPT !.id = userID],
                               !.token = GenerateRefreshToken(userID)]]
    /\ Goto(w, "ValidateToken")
    /\ UNCHANGED <<users, refreshTokens, otps, outbox, now, ticks, otpPassed, down, rateLimits>>

\* time: the clock when ValidateToken ran
CallValidateToken(w) ==
    /\ pc[w] = "ValidateToken"
    /\ IF ValidateToken(loc[w].token)
       THEN /\ loc' = [loc EXCEPT ![w].claims = ParseClaims(loc[w].token), ![w].time = now]
            /\ Fail(w, nil)
       ELSE /\ loc' = [loc EXCEPT ![w].time = now]
            /\ Fail(w, ErrInvalidToken)
    /\ UNCHANGED <<users, refreshTokens, otps, outbox, now, ticks, calls, otpPassed, down,
                   rateLimits>>

-----------------------------------------------------------------------------
(* The phone functions called on their own: a phone is normalized, the     *)
(* result normalized once more and then validated                          *)

CallNormalizePakistaniPhone(w, phone) ==
    /\ pc[w] = "idle"
    /\ Started("NormalizePakistaniPhone")
    /\ loc' = [loc EXCEPT ![w] =
                 [NoLoc EXCEPT !.op = "NormalizePakistaniPhone", !.phone = phone,
                               !.normalizedPhone = NormalizePakistaniPhone(phone)]]
    /\ Goto(w, "NormalizePakistaniPhone_Again")
    /\ UNCHANGED <<users, refreshTokens, otps, outbox, now, ticks, otpPassed, down, rateLimits>>

CallNormalizePakistaniPhoneAgain(w) ==
    /\ pc[w] = "NormalizePakistaniPhone_Again"
    /\ loc' = [loc EXCEPT ![w].renormalized =
                              NormalizePakistaniPhone(loc[w].normalizedPhone)]
    /\ Goto(w, "ValidatePakistaniPhone")
    /\ UNCHANGED <<users, refreshTokens, otps, outbox, now, ticks, calls, otpPassed, down,
                   rateLimits>>

CallValidatePakistaniPhone(w) ==
    /\ pc[w] = "ValidatePakistaniPhone"
    /\ IF ValidatePakistaniPhone(loc[w].normalizedPhone)
       THEN Fail(w, nil)
       ELSE Fail(w, ErrInvalidPhoneFormat)
    /\ UNCHANGED <<users, refreshTokens, otps, outbox, now, ticks, calls, otpPassed, down,
                   rateLimits, loc>>

-----------------------------------------------------------------------------
(* Refresh token store (MongoDB "refresh_tokens", unique index on token) *)

RowIdx == 1..Len(refreshTokens)

FirstRow(token) ==
    CHOOSE i \in RowIdx :
        /\ refreshTokens[i].token = token
        /\ \A j \in RowIdx : refreshTokens[j].token = token => i <= j

FindByToken(token) ==
    IF \E i \in RowIdx : refreshTokens[i].token = token
    THEN refreshTokens[FirstRow(token)]
    ELSE NoRow

TokenDuplicateKey(row) == \E i \in RowIdx : refreshTokens[i].token = row.token

RevokeDeletesRow(token) ==
    refreshTokens' = SelectSeq(refreshTokens, LAMBDA row : row.token # token)

\* UpdateOne({"token": token}, {"$set": {"is_revoked": true}})
Revoke(token) ==
    IF \E i \in RowIdx : refreshTokens[i].token = token
    THEN refreshTokens' = [refreshTokens EXCEPT ![FirstRow(token)].isRevoked = TRUE]
    ELSE UNCHANGED refreshTokens

\* the entity Login and RefreshToken build for a freshly generated token
NewRow(userID, token) ==
    [userID |-> userID, token |-> token,
     expiresAt |-> now + refreshTokenExpiration, isRevoked |-> FALSE]

-----------------------------------------------------------------------------
(* Login *)

LoginRequests == [email : Emails, password : Passwords]

\* without the is_verified check
LoginCheckSkipsVerified(user, password) ==
    IF user = NoUser THEN ErrInvalidCredentials
    ELSE IF ~CheckPassword(user.password, password) THEN ErrInvalidCredentials
    ELSE IF ~user.isActive THEN ErrUserInactive
    ELSE nil

\* is_active checked before is_verified
LoginCheckActiveFirst(user, password) ==
    IF user = NoUser THEN ErrInvalidCredentials
    ELSE IF ~CheckPassword(user.password, password) THEN ErrInvalidCredentials
    ELSE IF ~user.isActive THEN ErrUserInactive
    ELSE IF ~user.isVerified THEN ErrUserNotVerified
    ELSE nil

\* an unknown email reported as such
LoginCheckReportsNotFound(user, password) ==
    IF user = NoUser THEN ErrUserNotFound
    ELSE IF ~CheckPassword(user.password, password) THEN ErrInvalidCredentials
    ELSE IF ~user.isVerified THEN ErrUserNotVerified
    ELSE IF ~user.isActive THEN ErrUserInactive
    ELSE nil

\* the guards of Login on the user FindByEmail returned, in the code's order
LoginCheck(user, password) ==
    IF user = NoUser THEN ErrInvalidCredentials
    ELSE IF ~CheckPassword(user.password, password) THEN ErrInvalidCredentials
    ELSE IF ~user.isVerified THEN ErrUserNotVerified
    ELSE IF ~user.isActive THEN ErrUserInactive
    ELSE nil

Login(w, req) ==
    /\ pc[w] = "idle"
    /\ Started("Login")
    /\ loc' = [loc EXCEPT ![w] =
                 [NoLoc EXCEPT !.op = "Login", !.email = req.email,
                               !.password = req.password]]
    /\ Goto(w, "Login_FindByEmail")
    /\ UNCHANGED <<users, refreshTokens, otps, outbox, now, ticks, otpPassed, down, rateLimits>>

\* FindByEmail, the guards, and the generation of the token pair
\* last_login_at written as soon as the user is found
LoginFindByEmailTouchesFirst(w) ==
    /\ pc[w] = "Login_FindByEmail"
    /\ LET user == FindByEmail(loc[w].email)
       IN  /\ users' = IF user # NoUser
                       THEN [users EXCEPT ![user.id].lastLogin = now]
                       ELSE users
           /\ IF LoginCheck(user, loc[w].password) # nil
              THEN /\ loc' = [loc EXCEPT ![w].user = user]
                   /\ Fail(w, LoginCheck(user, loc[w].password))
              ELSE /\ loc' = [loc EXCEPT
                                ![w].user = user,
                                ![w].access = GenerateAccessToken(user.id, user.email, user.role),
                                ![w].refresh = GenerateRefreshToken(user.id)]
                   /\ Goto(w, "Login_Create")
    /\ UNCHANGED <<refreshTokens, otps, outbox, now, ticks, calls, otpPassed, down,
                   rateLimits>>

LoginFindByEmail(w) ==
    /\ pc[w] = "Login_FindByEmail"
    /\ LET user == FindByEmail(loc[w].email)
       IN  IF ~Up("mongo")
           THEN /\ loc' = [loc EXCEPT ![w].unreachable = TRUE]
                /\ Fail(w, ErrInvalidCredentials)
           ELSE IF LoginCheck(user, loc[w].password) # nil
           THEN /\ loc' = [loc EXCEPT ![w].user = user]
                /\ Fail(w, LoginCheck(user, loc[w].password))
           ELSE /\ loc' = [loc EXCEPT
                             ![w].user = user,
                             ![w].access = GenerateAccessToken(user.id, user.email, user.role),
                             ![w].refresh = GenerateRefreshToken(user.id)]
                /\ Goto(w, "Login_Create")
    /\ UNCHANGED <<users, refreshTokens, otps, outbox, now, ticks, calls, otpPassed, down,
                   rateLimits>>

LoginCreate(w) ==
    /\ pc[w] = "Login_Create"
    /\ LET row == NewRow(loc[w].user.id, loc[w].refresh)
       IN  IF ~Up("mongo")
           THEN /\ Fail(w, ErrMongo)
                /\ loc' = [loc EXCEPT ![w].unreachable = TRUE]
                /\ UNCHANGED refreshTokens
           ELSE IF TokenDuplicateKey(row)
           THEN /\ Fail(w, ErrDuplicateKey)
                /\ UNCHANGED <<refreshTokens, loc>>
           ELSE /\ refreshTokens' = Append(refreshTokens, row)
                /\ loc' = [loc EXCEPT ![w].row = row]
                /\ Goto(w, "Login_UpdateLastLogin")
    /\ UNCHANGED <<users, otps, outbox, now, ticks, calls, otpPassed, down, rateLimits>>

\* UpdateOne({"_id": userID}, {"$set": {"last_login_at": now}})
UpdateLastLogin(userID) ==
    IF userID \in UserIdx
    THEN users' = [users EXCEPT ![userID].lastLogin = now]
    ELSE UNCHANGED users

\* a failed UpdateLastLogin fails the login
LoginUpdateLastLoginSurfaces(w) ==
    /\ pc[w] = "Login_UpdateLastLogin"
    /\ IF Up("mongo")
       THEN /\ UpdateLastLogin(loc[w].user.id)
            /\ Return(w, "Login", nil, loc[w].access, loc[w].refresh)
            /\ UNCHANGED loc
       ELSE /\ loc' = [loc EXCEPT ![w].unreachable = TRUE]
            /\ Fail(w, ErrMongo)
            /\ UNCHANGED users
    /\ UNCHANGED <<refreshTokens, otps, outbox, now, ticks, calls, otpPassed, down,
                   rateLimits>>

\* a failed UpdateLastLogin is logged only
LoginUpdateLastLogin(w) ==
    /\ pc[w] = "Login_UpdateLastLogin"
    /\ IF Up("mongo")
       THEN /\ UpdateLastLogin(loc[w].user.id)
            /\ UNCHANGED loc
       ELSE /\ loc' = [loc EXCEPT ![w].unreachable = TRUE]
            /\ UNCHANGED users
    /\ Return(w, "Login", nil, loc[w].access, loc[w].refresh)
    /\ UNCHANGED <<refreshTokens, otps, outbox, now, ticks, calls, otpPassed, down,
                   rateLimits>>

-----------------------------------------------------------------------------
(* VerifyOTP *)

VerifyOTPRequests == [email : Emails, code : GenerateOTP(otpLength)]

\* only the lengths are compared
OTPMismatchByLength(storedOTP, code) == Len(storedOTP) # Len(code)

\* storedOTP != req.Code
OTPMismatch(storedOTP, code) == storedOTP # code

\* first: no earlier call verified this code and deleted it; fresh: an OTP is
\* live for the email as the request arrives
VerifyOTP(w, req) ==
    /\ pc[w] = "idle"
    /\ Started("VerifyOTP")
    /\ loc' = [loc EXCEPT ![w] =
                 [NoLoc EXCEPT !.op = "VerifyOTP", !.email = req.email, !.code = req.code,
                               !.fresh = OTPLive(req.email),
                               !.first = ~\E v \in Workers :
                                             /\ pc[v] = "idle" /\ ret[v].op = "VerifyOTP"
                                             /\ ret[v].err = nil /\ loc[v].deleted
                                             /\ loc[v].email = req.email
                                             /\ loc[v].code = req.code]]
    /\ Goto(w, "VerifyOTP_Get")
    /\ UNCHANGED <<users, refreshTokens, otps, outbox, now, ticks, otpPassed, down, rateLimits>>

\* otpRepo.Get and the comparison with the presented code; every error of Get,
\* redis nil or not, is answered with ErrOTPNotFound
VerifyOTPGet(w) ==
    /\ pc[w] = "VerifyOTP_Get"
    /\ IF ~Up("redis") \/ ~OTPLive(loc[w].email)
       THEN /\ Fail(w, ErrOTPNotFound)
            /\ loc' = [loc EXCEPT ![w].unreachable = ~Up("redis")]
       ELSE /\ loc' = [loc EXCEPT ![w].storedOTP = otps[loc[w].email].code]
            /\ IF OTPMismatch(otps[loc[w].email].code, loc[w].code)
               THEN Fail(w, ErrInvalidOTP)
               ELSE Goto(w, "VerifyOTP_UpdateVerificationStatus")
    /\ UNCHANGED <<users, refreshTokens, otps, outbox, now, ticks, calls, otpPassed, down,
                   rateLimits>>

UpdateVerificationStatusToggles(email, isVerified) ==
    IF FindByEmail(email) # NoUser
    THEN users' = [users EXCEPT ![FindByEmail(email).id].isVerified = ~@]
    ELSE UNCHANGED users

\* UpdateOne({"email": email}, {"$set": {"is_verified": isVerified}})
UpdateVerificationStatus(email, isVerified) ==
    IF FindByEmail(email) # NoUser
    THEN users' = [users EXCEPT ![FindByEmail(email).id].isVerified = isVerified]
    ELSE UNCHANGED users

VerifyOTPUpdateVerificationStatus(w) ==
    /\ pc[w] = "VerifyOTP_UpdateVerificationStatus"
    /\ IF ~Up("mongo")
       THEN /\ Fail(w, ErrMongo)
            /\ loc' = [loc EXCEPT ![w].unreachable = TRUE]
            /\ UNCHANGED <<users, otpPassed>>
       ELSE /\ UpdateVerificationStatus(loc[w].email, TRUE)
            /\ otpPassed' = otpPassed \cup {loc[w].email}
            /\ Goto(w, "VerifyOTP_Delete")
            /\ UNCHANGED loc
    /\ UNCHANGED <<refreshTokens, otps, outbox, now, ticks, calls, down, rateLimits>>

\* a DEL that removes nothing
OTPDeleteKeepsKey(email) == UNCHANGED otps

\* redis DEL key
OTPDelete(email) == otps' = [otps EXCEPT ![email] = NoOTP]

\* a failed Delete is logged only; left and deleted note what the call leaves
VerifyOTPDelete(w) ==
    /\ pc[w] = "VerifyOTP_Delete"
    /\ IF Up("redis") THEN OTPDelete(loc[w].email) ELSE UNCHANGED otps
    /\ loc' = [loc EXCEPT ![w].deleted = Up("redis"),
                          ![w].left = IF now < otps'[loc[w].email].expiresAt
                                      THEN otps'[loc[w].email] ELSE NoOTP]
    /\ Fail(w, nil)
    /\ UNCHANGED <<users, refreshTokens, outbox, now, ticks, calls, otpPassed, down,
                   rateLimits>>

-----------------------------------------------------------------------------
(* RefreshToken *)

\* as the request arrives: fresh, the token's row is stored and not revoked;
\* revoked, it is stored and revoked; expired, its stored expiry has passed;
\* first, no call has presented the token before
RefreshToken(w, token) ==
    /\ pc[w] = "idle"
    /\ Started("RefreshToken")
    /\ loc' = [loc EXCEPT ![w] =
                 [NoLoc EXCEPT !.op = "RefreshToken", !.token = token,
                               !.fresh = (FindByToken(token) # NoRow
                                          /\ ~FindByToken(token).isRevoked),
                               !.revoked = (FindByToken(token) # NoRow
                                            /\ FindByToken(token).isRevoked),
                               !.expired = (FindByToken(token) # NoRow
                                            /\ now > FindByToken(token).expiresAt),
                               !.first = (\A v \in Workers : loc[v].token # token)]]
    /\ Goto(w, "RefreshToken_ValidateToken")
    /\ UNCHANGED <<users, refreshTokens, otps, outbox, now, ticks, otpPassed, down, rateLimits>>

\* the token is validated cryptographically
RefreshTokenValidateToken(w) ==
    /\ pc[w] = "RefreshToken_ValidateToken"
    /\ IF ~ValidateToken(loc[w].token)
       THEN Fail(w, ErrInvalidToken)
       ELSE Goto(w, "RefreshToken_FindByToken")
    /\ UNCHANGED <<users, refreshTokens, otps, outbox, now, ticks, calls, loc, otpPassed,
                   down, rateLimits>>

\* FindByToken, then the is_revoked and the stored-expiry checks
RefreshTokenFindByToken(w) ==
    /\ pc[w] = "RefreshToken_FindByToken"
    /\ LET row == IF Up("mongo") THEN FindByToken(loc[w].token) ELSE NoRow
       IN  /\ loc' = [loc EXCEPT ![w].row = row, ![w].unreachable = ~Up("mongo")]
           /\ IF row = NoRow THEN Fail(w, ErrInvalidToken)
              ELSE IF row.isRevoked THEN Fail(w, ErrRevokedToken)
              ELSE IF now > row.expiresAt THEN Fail(w, ErrExpiredToken)
              ELSE IF loc[w].token.userID = 0 THEN Fail(w, ErrInvalidToken)
              ELSE Goto(w, "RefreshToken_FindByID")
    /\ UNCHANGED <<users, refreshTokens, otps, outbox, now, ticks, calls, otpPassed, down,
                   rateLimits>>

\* FindByID of the token's subject, then generation of the new pair
RefreshTokenFindByID(w) ==
    /\ pc[w] = "RefreshToken_FindByID"
    /\ LET user == IF Up("mongo") THEN FindByID(loc[w].token.userID) ELSE NoUser
       IN  IF user = NoUser
           THEN /\ Fail(w, ErrUserNotFound)
                /\ loc' = [loc EXCEPT ![w].unreachable = ~Up("mongo")]
           ELSE /\ loc' = [loc EXCEPT ![w].user = user,
                                      ![w].access = GenerateAccessToken(user.id, user.email, user.role),
                                      ![w].refresh = GenerateRefreshToken(user.id)]
                /\ Goto(w, "RefreshToken_Revoke")
    /\ UNCHANGED <<users, refreshTokens, otps, outbox, now, ticks, calls, otpPassed, down,
                   rateLimits>>

RefreshTokenRevoke(w) ==
    /\ pc[w] = "RefreshToken_Revoke"
    /\ IF ~Up("mongo")
       THEN /\ Fail(w, ErrMongo)
            /\ loc' = [loc EXCEPT ![w].unreachable = TRUE]
            /\ UNCHANGED refreshTokens
       ELSE /\ Revoke(loc[w].token)
            /\ Goto(w, "RefreshToken_Create")
            /\ UNCHANGED loc
    /\ UNCHANGED <<users, otps, outbox, now, ticks, calls, otpPassed, down, rateLimits>>

\* the presented token's row set back to unrevoked when Create finds the
\* new token stored already
RefreshTokenCreateRestores(w) ==
    /\ pc[w] = "RefreshToken_Create"
    /\ LET row == NewRow(loc[w].user.id, loc[w].refresh)
       IN  IF ~Up("mongo")
           THEN /\ Fail(w, ErrMongo)
                /\ loc' = [loc EXCEPT ![w].unreachable = TRUE]
                /\ UNCHANGED refreshTokens
           ELSE IF TokenDuplicateKey(row)
           THEN /\ Fail(w, ErrDuplicateKey)
                /\ refreshTokens' =
                      [refreshTokens EXCEPT ![FirstRow(loc[w].token)].isRevoked = FALSE]
                /\ UNCHANGED loc
           ELSE /\ refreshTokens' = Append(refreshTokens, row)
                /\ Return(w, "RefreshToken", nil, loc[w].access, loc[w].refresh)
                /\ UNCHANGED loc
    /\ UNCHANGED <<users, otps, outbox, now, ticks, calls, otpPassed, down, rateLimits>>

RefreshTokenCreate(w) ==
    /\ pc[w] = "RefreshToken_Create"
    /\ LET row == NewRow(loc[w].user.id, loc[w].refresh)
       IN  IF ~Up("mongo")
           THEN /\ Fail(w, ErrMongo)
                /\ loc' = [loc EXCEPT ![w].unreachable = TRUE]
                /\ UNCHANGED refreshTokens
           ELSE IF TokenDuplicateKey(row)
           THEN /\ Fail(w, ErrDuplicateKey)
                /\ UNCHANGED <<refreshTokens, loc>>
           ELSE /\ refreshTokens' = Append(refreshTokens, row)
                /\ Return(w, "RefreshToken", nil, loc[w].access, loc[w].refresh)
                /\ UNCHANGED loc
    /\ UNCHANGED <<users, otps, outbox, now, ticks, calls, otpPassed, down, rateLimits>>

-----------------------------------------------------------------------------
(* ResendOTP *)

\* recovers: a Register for the email has failed after it created the user
ResendOTP(w, email) ==
    /\ pc[w] = "idle"
    /\ Started("ResendOTP")
    /\ loc' = [loc EXCEPT ![w] =
                 [NoLoc EXCEPT !.op = "ResendOTP", !.email = email,
                               !.recovers = \E v \in Workers :
                                               /\ pc[v] = "idle" /\ ret[v].op = "Register"
                                               /\ ret[v].err # nil
                                               /\ ret[v].at = "Register_StoreOTP"
                                               /\ loc[v].email = email]]
    /\ Goto(w, "ResendOTP_FindByEmail")
    /\ UNCHANGED <<users, refreshTokens, otps, outbox, now, ticks, otpPassed, down, rateLimits>>

\* without the check that the user exists
ResendOTPFindByEmailSkipsLookup(w) ==
    /\ pc[w] = "ResendOTP_FindByEmail"
    /\ LET user == FindByEmail(loc[w].email)
       IN  /\ loc' = [loc EXCEPT ![w].user = user]
           /\ IF user.isVerified THEN Fail(w, ErrBadRequest)
              ELSE Goto(w, "ResendOTP_Exists")
    /\ UNCHANGED <<users, refreshTokens, otps, outbox, now, ticks, calls, otpPassed, down,
                   rateLimits>>

ResendOTPFindByEmailSkipsVerified(w) ==
    /\ pc[w] = "ResendOTP_FindByEmail"
    /\ LET user == FindByEmail(loc[w].email)
       IN  /\ loc' = [loc EXCEPT ![w].user = user]
           /\ IF user = NoUser THEN Fail(w, ErrUserNotFound)
              ELSE Goto(w, "ResendOTP_Exists")
    /\ UNCHANGED <<users, refreshTokens, otps, outbox, now, ticks, calls, otpPassed, down,
                   rateLimits>>

\* FindByEmail and the already-verified check
ResendOTPFindByEmail(w) ==
    /\ pc[w] = "ResendOTP_FindByEmail"
    /\ LET user == IF Up("mongo") THEN FindByEmail(loc[w].email) ELSE NoUser
       IN  /\ loc' = [loc EXCEPT ![w].user = user, ![w].unreachable = ~Up("mongo")]
           /\ IF user = NoUser THEN Fail(w, ErrUserNotFound)
              ELSE IF user.isVerified THEN Fail(w, ErrBadRequest)
              ELSE Goto(w, "ResendOTP_Exists")
    /\ UNCHANGED <<users, refreshTokens, otps, outbox, now, ticks, calls, otpPassed, down,
                   rateLimits>>

ResendOTPExists(w) ==
    /\ pc[w] = "ResendOTP_Exists"
    /\ loc' = [loc EXCEPT ![w].unreachable = ~Up("redis")]
    /\ IF ~Up("redis") THEN Fail(w, ErrRedis)
       ELSE IF OTPLive(loc[w].email)
       THEN Fail(w, ErrOTPAlreadySent)
       ELSE Goto(w, "ResendOTP_Store")
    /\ UNCHANGED <<users, refreshTokens, otps, outbox, now, ticks, calls, otpPassed, down,
                   rateLimits>>

ResendOTPStore(w) ==
    /\ pc[w] = "ResendOTP_Store"
    /\ IF GenerateOTP(otpLength) = {}
       THEN /\ Fail(w, ErrOTPLength)
            /\ UNCHANGED <<otps, loc>>
       ELSE IF ~Up("redis")
       THEN /\ Fail(w, ErrRedis)
            /\ loc' = [loc EXCEPT ![w].unreachable = TRUE]
            /\ UNCHANGED otps
       ELSE \E otp \in GenerateOTP(otpLength) :
               /\ OTPStore(loc[w].email, otp, otpExpireMinutes)
               /\ loc' = [loc EXCEPT ![w].otp = otp]
               /\ Goto(w, "ResendOTP_SendOTP")
    /\ UNCHANGED <<users, refreshTokens, outbox, now, ticks, calls, otpPassed, down, rateLimits>>

ResendOTPSendOTP(w) ==
    /\ pc[w] = "ResendOTP_SendOTP"
    /\ SendOTP(loc[w].email, loc[w].otp)
    /\ Fail(w, nil)
    /\ UNCHANGED <<users, refreshTokens, otps, now, ticks, calls, loc, otpPassed, down, rateLimits>>

-----------------------------------------------------------------------------
(* Rate limiter: RateLimiterRepositoryImpl over the Redis keys              *)
(* "rate_limit:<key>", and LoginRateLimiterMiddleware in front of the login *)
(* route                                                                    *)

\* a Redis key exists until its TTL, if it has one, has run out
CounterLive(key) ==
    /\ rateLimits[key].count > 0
    /\ (rateLimits[key].expiresAt = -1 \/ now < rateLimits[key].expiresAt)

\* GET ... Int(): "redis: nil" is not an error and leaves count at 0
CounterGet(key) == IF CounterLive(key) THEN rateLimits[key].count ELSE 0

CheckRateLimitAtLimit(key, limit, windowSeconds) == ~(CounterGet(key) > limit)

\* allowed, when Redis answers
CheckRateLimit(key, limit, windowSeconds) == ~(CounterGet(key) >= limit)

\* INCR: an absent key is created with value 1 and without a TTL
Increment(key) ==
    rateLimits' = [rateLimits EXCEPT ![key] =
                     IF CounterLive(key)
                     THEN [@ EXCEPT !.count = @ + 1]
                     ELSE [count |-> 1, expiresAt |-> -1, since |-> now]]

\* EXPIRE: the TTL of an existing key starts now
Expire(key, expiration) ==
    rateLimits' = IF CounterLive(key)
                  THEN [rateLimits EXCEPT ![key].expiresAt = now + expiration]
                  ELSE rateLimits

LoginRateLimiterMiddleware(w, ip) ==
    /\ pc[w] = "idle"
    /\ Started("LoginRateLimiter")
    /\ loc' = [loc EXCEPT ![w] =
                 [NoLoc EXCEPT !.op = "LoginRateLimiter", !.key = <<"login:ip:", ip>>]]
    /\ Goto(w, "LoginRateLimiter_CheckRateLimit")
    /\ UNCHANGED <<users, refreshTokens, otps, outbox, now, ticks, otpPassed, down, rateLimits>>

\* the window that the first increment of the key opened is over, or the
\* key was never incremented
WindowElapsed(key) ==
    \/ rateLimits[key].since = -1
    \/ now >= rateLimits[key].since + loginWindowSeconds

\* a check that counts the request it refuses
LoginRateLimiterCheckRateLimitCounts(w) ==
    /\ pc[w] = "LoginRateLimiter_CheckRateLimit"
    /\ IF ~Up("redis")
       THEN /\ Fail(w, ErrInternalServer)
            /\ UNCHANGED <<loc, rateLimits>>
       ELSE /\ loc' = [loc EXCEPT ![w].count = CounterGet(loc[w].key),
                                  ![w].elapsed = WindowElapsed(loc[w].key)]
            /\ IF ~CheckRateLimit(loc[w].key, LoginRequestsPerMinute, loginWindowSeconds)
               THEN Fail(w, ErrTooManyLoginAttempts) /\ Increment(loc[w].key)
               ELSE Goto(w, "LoginRateLimiter_Increment") /\ UNCHANGED rateLimits
    /\ UNCHANGED <<users, refreshTokens, otps, outbox, now, ticks, calls, otpPassed, down>>

\* 500 when Redis fails, 429 when not allowed
\* count: the value GET returned; elapsed: WindowElapsed at the time of GET
LoginRateLimiterCheckRateLimit(w) ==
    /\ pc[w] = "LoginRateLimiter_CheckRateLimit"
    /\ IF ~Up("redis")
       THEN /\ Fail(w, ErrInternalServer)
            /\ UNCHANGED loc
       ELSE /\ loc' = [loc EXCEPT ![w].count = CounterGet(loc[w].key),
                                  ![w].elapsed = WindowElapsed(loc[w].key)]
            /\ IF ~CheckRateLimit(loc[w].key, LoginRequestsPerMinute, loginWindowSeconds)
               THEN Fail(w, ErrTooManyLoginAttempts)
               ELSE Goto(w, "LoginRateLimiter_Increment")
    /\ UNCHANGED <<users, refreshTokens, otps, outbox, now, ticks, calls, otpPassed, down,
                   rateLimits>>

\* c.Next() without IncrementCounter
LoginRateLimiterIncrementSkipped(w) ==
    /\ pc[w] = "LoginRateLimiter_Increment"
    /\ Fail(w, nil)
    /\ UNCHANGED <<users, refreshTokens, otps, outbox, now, ticks, calls, otpPassed, down,
                   rateLimits, loc>>

\* IncrementCounter up to INCR; its error is logged and the request goes on
\* counted: the value INCR returned; unreachable: INCR failed
LoginRateLimiterIncrement(w) ==
    /\ pc[w] = "LoginRateLimiter_Increment"
    /\ IF ~Up("redis")
       THEN /\ Fail(w, nil)
            /\ loc' = [loc EXCEPT ![w].unreachable = TRUE]
            /\ UNCHANGED rateLimits
       ELSE /\ Increment(loc[w].key)
            /\ loc' = [loc EXCEPT ![w].counted = rateLimits'[loc[w].key].count]
            /\ IF rateLimits'[loc[w].key].count = 1
               THEN Goto(w, "LoginRateLimiter_Expire")
               ELSE Fail(w, nil)
    /\ UNCHANGED <<users, refreshTokens, otps, outbox, now, ticks, calls, otpPassed, down>>

\* IncrementCounter after a count of 1: EXPIRE; its error is logged too;
\* then c.Next()
LoginRateLimiterExpire(w) ==
    /\ pc[w] = "LoginRateLimiter_Expire"
    /\ IF Up("redis") THEN Expire(loc[w].key, loginWindowSeconds) ELSE UNCHANGED rateLimits
    /\ Fail(w, nil)
    /\ UNCHANGED <<users, refreshTokens, otps, outbox, now, ticks, calls, loc, otpPassed, down>>

\* POST /auth/login after the limiter called c.Next(): AuthHandler.Login binds
\* the body and calls the Login use case; key, count and counted stay those
\* of the request
LoginHandler(w, req) ==
    /\ pc[w] = "idle"
    /\ ret[w].op = "LoginRateLimiter"
    /\ ret[w].err = nil
    /\ loc' = [loc EXCEPT ![w].op = "Login", ![w].email = req.email,
                          ![w].password = req.password]
    /\ Goto(w, "Login_FindByEmail")
    /\ UNCHANGED <<users, refreshTokens, otps, outbox, now, ticks, calls, otpPassed, down,
                   rateLimits>>

-----------------------------------------------------------------------------
(* Protected routes.  main.go installs the global limiter on the router     *)
(* before SetupRoutes adds AuthMiddleware to the protected group and        *)
(* RoleMiddleware to its role groups, so a request passes the global        *)
(* limiter, then AuthMiddleware, then RoleMiddleware, then the handler.     *)

RouteRolesManagerOnAdmin ==
    "/admin/users" :> {"admin", "manager"}
        @@ "/finance/reports" :> {"admin", "finance_manager"}
        @@ "/manager/dashboard" :> {"admin", "manager"}

\* the roles handed to RoleMiddleware, by route
RouteRoles ==
    "/admin/users" :> {"admin"}
        @@ "/finance/reports" :> {"admin", "finance_manager"}
        @@ "/manager/dashboard" :> {"admin", "manager"}

Routes == DOMAIN RouteRoles \cup {"/auth/profile"}

\* tokens a client can present now: an access token of either user in any
\* role and a refresh token, just issued; an access token issued
\* accessTokenExpiration ago; a token signed with another key
PresentedTokens ==
    {GenerateAccessToken(id, "a@x.com", role) : id \in TokenUserIDs, role \in ValidRoles}
        \cup {GenerateRefreshToken(1)}
        \cup {[GenerateAccessToken(1, "a@x.com", "admin") EXCEPT
                  !.exp = now, !.iat = now - accessTokenExpiration,
                  !.nbf = now - accessTokenExpiration]}
        \cup {[GenerateAccessToken(1, "a@x.com", "admin") EXCEPT !.key = "another-key"]}

\* strings.Split(authHeader, " "): no header, "Bearer", "Basic <token>" and
\* "Bearer <token>"
AuthHeaders ==
    {<<>>, <<"Bearer">>}
        \cup {<<"Basic", GenerateAccessToken(1, "a@x.com", "admin")>>}
        \cup {<<"Bearer", token>> : token \in PresentedTokens}

\* the status written with each error by the middleware and by GetProfile
HTTPStatus(err) ==
    CASE err = nil -> 200
      [] err \in {ErrUnauthorized, ErrInvalidToken} -> 401
      [] err = ErrForbidden -> 403
      [] err = ErrUserNotFound -> 404
      [] err = ErrRateLimitExceeded -> 429
      [] OTHER -> 500

\* a request arrives with a new gin context: claims holds the keys user_id,
\* user_email, user_role, NoClaims while they are not set
RateLimiterMiddleware(w, route, header, ip) ==
    /\ pc[w] = "idle"
    /\ Started("Protected")
    /\ loc' = [loc EXCEPT ![w] =
                 [NoLoc EXCEPT !.op = "Protected", !.route = route, !.header = header,
                               !.ip = ip]]
    /\ Goto(w, "RateLimiter_CheckRateLimit")
    /\ UNCHANGED <<users, refreshTokens, otps, outbox, now, ticks, otpPassed, down, rateLimits>>

\* the key, from c.Get("user_id") or c.ClientIP(), then CheckRateLimit
RateLimiterCheckRateLimit(w) ==
    /\ pc[w] = "RateLimiter_CheckRateLimit"
    /\ LET key == IF loc[w].claims # NoClaims
                  THEN <<"user:", ToString(loc[w].claims.userID)>>
                  ELSE <<"ip:", loc[w].ip>>
       IN  IF ~Up("redis")
           THEN /\ loc' = [loc EXCEPT ![w].key = key]
                /\ Fail(w, ErrInternalServer)
           ELSE /\ loc' = [loc EXCEPT ![w].key = key, ![w].count = CounterGet(key)]
                /\ IF ~CheckRateLimit(key, RequestsPerMinute, globalWindowSeconds)
                   THEN Fail(w, ErrRateLimitExceeded)
                   ELSE Goto(w, "RateLimiter_Increment")
    /\ UNCHANGED <<users, refreshTokens, otps, outbox, now, ticks, calls, otpPassed, down,
                   rateLimits>>

\* IncrementCounter up to INCR; its error is logged and the request goes on
RateLimiterIncrement(w) ==
    /\ pc[w] = "RateLimiter_Increment"
    /\ IF ~Up("redis")
       THEN /\ loc' = [loc EXCEPT ![w].unreachable = TRUE]
            /\ Goto(w, "AuthMiddleware")
            /\ UNCHANGED rateLimits
       ELSE /\ Increment(loc[w].key)
            /\ loc' = [loc EXCEPT ![w].counted = rateLimits'[loc[w].key].count]
            /\ IF rateLimits'[loc[w].key].count = 1
               THEN Goto(w, "RateLimiter_Expire")
               ELSE Goto(w, "AuthMiddleware")
    /\ UNCHANGED <<users, refreshTokens, otps, outbox, now, ticks, calls, otpPassed, down>>

\* IncrementCounter after a count of 1: EXPIRE; then c.Next()
RateLimiterExpire(w) ==
    /\ pc[w] = "RateLimiter_Expire"
    /\ IF Up("redis") THEN Expire(loc[w].key, globalWindowSeconds) ELSE UNCHANGED rateLimits
    /\ Goto(w, "AuthMiddleware")
    /\ UNCHANGED <<users, refreshTokens, otps, outbox, now, ticks, calls, loc, otpPassed, down>>

\* 401 without a header of the two parts "Bearer" and a token that
\* validates; else the claims are set in the context
AuthMiddleware(w) ==
    /\ pc[w] = "AuthMiddleware"
    /\ LET parts == loc[w].header
       IN  IF parts = <<>>
           THEN Fail(w, ErrUnauthorized) /\ UNCHANGED loc
           ELSE IF Len(parts) # 2 \/ parts[1] # "Bearer"
           THEN Fail(w, ErrUnauthorized) /\ UNCHANGED loc
           ELSE IF ~ValidateToken(parts[2])
           THEN /\ loc' = [loc EXCEPT ![w].token = parts[2]]
                /\ Fail(w, ErrInvalidToken)
           ELSE /\ loc' = [loc EXCEPT ![w].token = parts[2],
                                      ![w].claims = ParseClaims(parts[2])]
                /\ IF loc[w].route \in DOMAIN RouteRoles
                   THEN Goto(w, "RoleMiddleware")
                   ELSE Goto(w, "Handler")
    /\ UNCHANGED <<users, refreshTokens, otps, outbox, now, ticks, calls, otpPassed, down,
                   rateLimits>>

\* 401 without user_role in the context, 403 when it is none of the roles
\* of the route
RoleMiddleware(w) ==
    /\ pc[w] = "RoleMiddleware"
    /\ IF loc[w].claims = NoClaims
       THEN Fail(w, ErrUnauthorized)
       ELSE IF loc[w].claims.role \notin RouteRoles[loc[w].route]
       THEN Fail(w, ErrForbidden)
       ELSE Goto(w, "Handler")
    /\ UNCHANGED <<users, refreshTokens, otps, outbox, now, ticks, calls, loc, otpPassed, down,
                   rateLimits>>

\* AuthHandler.GetProfile, and the handlers of the role groups, which only
\* answer 200
ProtectedHandler(w) ==
    /\ pc[w] = "Handler"
    /\ IF loc[w].route = "/auth/profile"
       THEN IF loc[w].claims = NoClaims
            THEN Fail(w, ErrUnauthorized)
            ELSE IF FindByID(loc[w].claims.userID) = NoUser
            THEN Fail(w, ErrUserNotFound)
            ELSE Fail(w, nil)
       ELSE Fail(w, nil)
    /\ UNCHANGED <<users, refreshTokens, otps, outbox, now, ticks, calls, loc, otpPassed, down,
                   rateLimits>>

-----------------------------------------------------------------------------
(* UserRepository.Update: a full replace by _id.  The use case never calls  *)
(* it; an administrator uses it to deactivate or reactivate an account.     *)

Update(user) ==
    /\ user.id \in UserIdx
    /\ \A i \in UserIdx \ {user.id} :
          users[i].email # user.email /\ users[i].phone # user.phone
    /\ users' = [users EXCEPT ![user.id] = user]
    /\ UNCHANGED <<refreshTokens, otps, outbox, now, ticks, calls, pc, loc, ret, held,
                   otpPassed, down, rateLimits>>

ActivationUpdates == {[users[i] EXCEPT !.isActive = ~@] : i \in UserIdx}

-----------------------------------------------------------------------------
(* Outages: a backing service becomes unreachable, and reachable again *)

Outage(service) ==
    /\ Up(service)
    /\ down' = down \cup {service}
    /\ UNCHANGED <<users, refreshTokens, otps, outbox, now, ticks, calls, pc, loc, ret, held,
                   otpPassed, rateLimits>>

Recover(service) ==
    /\ ~Up(service)
    /\ down' = down \ {service}
    /\ UNCHANGED <<users, refreshTokens, otps, outbox, now, ticks, calls, pc, loc, ret, held,
                   otpPassed, rateLimits>>

-----------------------------------------------------------------------------
(* The clock *)

\* a second passes, or the lifetime of an OTP, or one second less
TickSteps ==
    {1, otpExpireMinutes * SecondsPerMinute - 1, otpExpireMinutes * SecondsPerMinute}

Tick(d) ==
    /\ ticks' = ticks + 1
    /\ now' = now + d
    /\ UNCHANGED <<users, refreshTokens, otps, outbox, calls, pc, loc, ret, held, otpPassed,
                   down, rateLimits>>

-----------------------------------------------------------------------------
(* Specifications *)

RegisterSteps ==
    \/ \E w \in Workers : RegisterValidate(w)
    \/ \E w \in Workers : RegisterFindByEmail(w)
    \/ \E w \in Workers : RegisterFindByPhone(w)
    \/ \E w \in Workers : RegisterCreate(w)
    \/ \E w \in Workers : RegisterStoreOTP(w)
    \/ \E w \in Workers : RegisterSendOTP(w)

LoginSteps ==
    \/ \E w \in Workers : LoginFindByEmail(w)
    \/ \E w \in Workers : LoginCreate(w)
    \/ \E w \in Workers : LoginUpdateLastLogin(w)

VerifyOTPSteps ==
    \/ \E w \in Workers : VerifyOTPGet(w)
    \/ \E w \in Workers : VerifyOTPUpdateVerificationStatus(w)
    \/ \E w \in Workers : VerifyOTPDelete(w)

RefreshTokenSteps ==
    \/ \E w \in Workers : RefreshTokenValidateToken(w)
    \/ \E w \in Workers : RefreshTokenFindByToken(w)
    \/ \E w \in Workers : RefreshTokenFindByID(w)
    \/ \E w \in Workers : RefreshTokenRevoke(w)
    \/ \E w \in Workers : RefreshTokenCreate(w)

ResendOTPSteps ==
    \/ \E w \in Workers : ResendOTPFindByEmail(w)
    \/ \E w \in Workers : ResendOTPExists(w)
    \/ \E w \in Workers : ResendOTPStore(w)
    \/ \E w \in Workers : ResendOTPSendOTP(w)

(* Registration: concurrent Register calls over two emails and four phones *)

NextRegister ==
    \/ \E w \in Workers, req \in RegisterRequests :
          calls < MaxRegisterCalls /\ Register(w, req)
    \/ RegisterSteps

SpecRegister == Init /\ [][NextRegister]_vars

(* Login: one account is registered, activated, deactivated and logged in;  *)
(* "b@x.com" is never registered                                            *)

AccountRequest ==
    [email |-> "a@x.com", phone |-> PhoneLocal, password |-> "Password123",
     role |-> "customer"]

AccountCodes == [email : {"a@x.com"}, code : GenerateOTP(otpLength)]

Next ==
    \/ \E w \in Workers : calls < MaxCalls /\ Register(w, AccountRequest)
    \/ RegisterSteps
    \/ \E w \in Workers, req \in AccountCodes : calls < MaxCalls /\ VerifyOTP(w, req)
    \/ VerifyOTPSteps
    \/ \E w \in Workers, req \in LoginRequests : calls < MaxCalls /\ Login(w, req)
    \/ LoginSteps
    \/ \E user \in ActivationUpdates : Update(user)
    \/ ticks < MaxLoginTicks /\ Tick(1)

Spec == Init /\ [][Next]_vars

(* Verification: the OTP of the account is tried and resent, also after its *)
(* TTL                                                                      *)

NextVerify ==
    \/ \E w \in Workers : calls < MaxVerifyCalls /\ Register(w, AccountRequest)
    \/ RegisterSteps
    \/ \E w \in Workers, req \in VerifyOTPRequests :
          calls < MaxVerifyCalls /\ VerifyOTP(w, req)
    \/ VerifyOTPSteps
    \/ \E w \in Workers, email \in Emails :
          calls < MaxVerifyCalls /\ ResendOTP(w, email)
    \/ ResendOTPSteps
    \/ \E d \in TickSteps : ticks < MaxTicks /\ Tick(d)

SpecVerify == Init /\ [][NextVerify]_vars

(* Rotation: the account is activated and logs in, its tokens are refreshed *)

AccountLogin == [email |-> "a@x.com", password |-> "Password123"]

NextRefresh ==
    \/ \E w \in Workers : calls < MaxRotationCalls /\ Register(w, AccountRequest)
    \/ RegisterSteps
    \/ \E w \in Workers, req \in AccountCodes :
          calls < MaxRotationCalls /\ VerifyOTP(w, req)
    \/ VerifyOTPSteps
    \/ \E w \in Workers : calls < MaxRotationCalls /\ Login(w, AccountLogin)
    \/ LoginSteps
    \/ \E w \in Workers, token \in held :
          calls < MaxRotationCalls /\ RefreshToken(w, token)
    \/ RefreshTokenSteps
    \/ ticks < MaxRotationTicks /\ Tick(1)

SpecRefresh == Init /\ [][NextRefresh]_vars

(* Expiry: one client after the other; the clock also steps by the lifetime *)
(* of a refresh token                                                       *)

Sequential == {"w1"}

ExpiryTickSteps == {1, refreshTokenExpiration}

NextExpiry ==
    \/ \E w \in Sequential : calls < MaxExpiryCalls /\ Register(w, AccountRequest)
    \/ RegisterSteps
    \/ \E w \in Sequential, req \in AccountCodes :
          calls < MaxExpiryCalls /\ VerifyOTP(w, req)
    \/ VerifyOTPSteps
    \/ \E w \in Sequential : calls < MaxExpiryCalls /\ Login(w, AccountLogin)
    \/ LoginSteps
    \/ \E w \in Sequential, token \in held :
          calls < MaxExpiryCalls /\ RefreshToken(w, token)
    \/ RefreshTokenSteps
    \/ \E d \in ExpiryTickSteps : ticks < MaxExpiryTicks /\ Tick(d)

SpecExpiry == Init /\ [][NextExpiry]_vars

(* Sessions: one client registers, verifies, logs in and refreshes while an *)
(* administrator deactivates and reactivates the account                    *)

NextSessions ==
    \/ \E w \in Sequential : calls < MaxSessionCalls /\ Register(w, AccountRequest)
    \/ RegisterSteps
    \/ \E w \in Sequential, req \in AccountCodes :
          calls < MaxSessionCalls /\ VerifyOTP(w, req)
    \/ VerifyOTPSteps
    \/ \E w \in Sequential : calls < MaxSessionCalls /\ Login(w, AccountLogin)
    \/ LoginSteps
    \/ \E w \in Sequential, token \in held :
          calls < MaxSessionCalls /\ RefreshToken(w, token)
    \/ RefreshTokenSteps
    \/ \E user \in ActivationUpdates : Update(user)
    \/ ticks < MaxSessionTicks /\ Tick(1)

SpecSessions == Init /\ [][NextSessions]_vars

(* Outages: the account is registered and verified and its OTP resent while *)
(* Redis comes and goes                                                     *)

\* the lifetime of an OTP passes
OutageTickSteps == {otpExpireMinutes * SecondsPerMinute}

NextOutage ==
    \/ \E w \in Workers : calls < MaxOutageCalls /\ Register(w, AccountRequest)
    \/ RegisterSteps
    \/ \E w \in Workers, req \in AccountCodes :
          calls < MaxOutageCalls /\ VerifyOTP(w, req)
    \/ VerifyOTPSteps
    \/ \E w \in Workers : calls < MaxOutageCalls /\ ResendOTP(w, AccountRequest.email)
    \/ ResendOTPSteps
    \/ \E service \in Services : Outage(service)
    \/ \E service \in Services : Recover(service)
    \/ \E d \in OutageTickSteps : ticks < MaxOutageTicks /\ Tick(d)

SpecOutage == Init /\ [][NextOutage]_vars

(* Login limiter: concurrent requests from one address while Redis comes    *)
(* and goes                                                                 *)

BusyIPs == {"10.0.0.1"}

LoginRateLimiterSteps ==
    \/ \E w \in Workers : LoginRateLimiterCheckRateLimit(w)
    \/ \E w \in Workers : LoginRateLimiterIncrement(w)
    \/ \E w \in Workers : LoginRateLimiterExpire(w)

\* a second passes, or the window, or one second less
LimiterTickSteps == {1, loginWindowSeconds - 1, loginWindowSeconds}

NextLimiter ==
    \/ \E w \in Workers, ip \in BusyIPs :
          calls < MaxLimiterCalls /\ LoginRateLimiterMiddleware(w, ip)
    \/ LoginRateLimiterSteps
    \/ \E service \in Services : Outage(service)
    \/ \E service \in Services : Recover(service)
    \/ \E d \in LimiterTickSteps : ticks < MaxLimiterTicks /\ Tick(d)

SpecLimiter == Init /\ [][NextLimiter]_vars

(* Login limiter, concurrent requests from one IP, Redis answering every call *)

NextBusyLimiter ==
    \/ \E w \in Workers, ip \in BusyIPs :
          calls < MaxBusyCalls /\ LoginRateLimiterMiddleware(w, ip)
    \/ LoginRateLimiterSteps
    \/ \E d \in LimiterTickSteps : ticks < MaxBusyTicks /\ Tick(d)

SpecBusyLimiter == Init /\ [][NextBusyLimiter]_vars

(* Login limiter, one request after the other, each shorter than a second   *)

\* a second passes, or all of the window but its last second
SequentialTickSteps == {1, loginWindowSeconds - 1}

NextSequentialLimiter ==
    \/ \E w \in Sequential, ip \in ClientIPs :
          calls < MaxSequentialCalls /\ LoginRateLimiterMiddleware(w, ip)
    \/ LoginRateLimiterSteps
    \/ \E service \in Services : Outage(service)
    \/ \E service \in Services : Recover(service)
    \/ \E d \in SequentialTickSteps :
          /\ ticks < MaxSequentialTicks
          /\ \A w \in Workers : pc[w] = "idle"
          /\ Tick(d)

SpecSequentialLimiter == Init /\ [][NextSequentialLimiter]_vars

(* Token issuer: one client has access tokens for two ids, two emails and   *)
(* every role validated, the other refresh tokens, at once and up to the    *)
(* last second of an access token                                           *)

TokenTickSteps == {1, accessTokenExpiration - 1}

NextTokens ==
    \/ \E w \in Sequential, userID \in TokenUserIDs, email \in Emails, role \in ValidRoles :
          calls < MaxTokenCalls /\ CallGenerateAccessToken(w, userID, email, role)
    \/ \E w \in Workers \ Sequential, userID \in TokenUserIDs :
          calls < MaxTokenCalls /\ CallGenerateRefreshToken(w, userID)
    \/ \E w \in Workers : CallValidateToken(w)
    \/ \E d \in TokenTickSteps : ticks < MaxTokenTicks /\ Tick(d)

SpecTokens == Init /\ [][NextTokens]_vars

NextPhones ==
    \/ \E w \in Workers, phone \in PhoneInputs :
          calls < MaxPhoneCalls /\ CallNormalizePakistaniPhone(w, phone)
    \/ \E w \in Workers : CallNormalizePakistaniPhoneAgain(w)
    \/ \E w \in Workers : CallValidatePakistaniPhone(w)

SpecPhones == Init /\ [][NextPhones]_vars

(* The login route: the login limiter, then AuthHandler.Login.  No account  *)
(* exists, so every Login ends at FindByEmail.                              *)

NextLoginRoute ==
    \/ \E w \in Workers, ip \in BusyIPs :
          calls < MaxRouteCalls /\ LoginRateLimiterMiddleware(w, ip)
    \/ LoginRateLimiterSteps
    \/ \E w \in Workers : LoginHandler(w, AccountLogin)
    \/ \E w \in Workers : LoginFindByEmail(w)
    \/ \E service \in Services : Outage(service)
    \/ \E service \in Services : Recover(service)

SpecLoginRoute == Init /\ [][NextLoginRoute]_vars

(* Protected routes: clients behind one address present every header on    *)
(* every route, one request after the other                                 *)

NextProtected ==
    \/ \E w \in Sequential, route \in Routes, header \in AuthHeaders, ip \in BusyIPs :
          calls < MaxProtectedCalls /\ RateLimiterMiddleware(w, route, header, ip)
    \/ \E w \in Workers : RateLimiterCheckRateLimit(w)
    \/ \E w \in Workers : RateLimiterIncrement(w)
    \/ \E w \in Workers : RateLimiterExpire(w)
    \/ \E w \in Workers : AuthMiddleware(w)
    \/ \E w \in Workers : RoleMiddleware(w)
    \/ \E w \in Workers : ProtectedHandler(w)

SpecProtected == Init /\ [][NextProtected]_vars

(* Store failures: one client registers, verifies, logs in, refreshes and   *)
(* asks for a new OTP while MongoDB and Redis come and go                   *)

Stores == {"mongo", "redis"}

NextStores ==
    \/ \E w \in Sequential : calls < MaxStoreCalls /\ Register(w, AccountRequest)
    \/ RegisterSteps
    \/ \E w \in Sequential, req \in AccountCodes :
          calls < MaxStoreCalls /\ VerifyOTP(w, req)
    \/ VerifyOTPSteps
    \/ \E w \in Sequential : calls < MaxStoreCalls /\ Login(w, AccountLogin)
    \/ LoginSteps
    \/ \E w \in Sequential, token \in held :
          calls < MaxStoreCalls /\ RefreshToken(w, token)
    \/ RefreshTokenSteps
    \/ \E w \in Sequential : calls < MaxStoreCalls /\ ResendOTP(w, AccountRequest.email)
    \/ ResendOTPSteps
    \/ \E service \in Stores : Outage(service)
    \/ \E service \in Stores : Recover(service)
    \/ ticks < MaxStoreTicks /\ Tick(1)

SpecStores == Init /\ [][NextStores]_vars

-----------------------------------------------------------------------------
(* Properties of registration, checked under SpecRegister *)

Done(w, op) == pc[w] = "idle" /\ ret[w].op = op

AlreadyExists == {ErrUserAlreadyExists, ErrPhoneAlreadyExists}

UsersWithEmail(email) == {i \in UserIdx : users[i].email = email}

\* two finished Register calls with one email, valid phone and role, both begun
\* while neither the email nor the normalized phone was registered
RacingRegisters(w1, w2) ==
    /\ w1 # w2
    /\ Done(w1, "Register") /\ Done(w2, "Register")
    /\ loc[w1].email = loc[w2].email
    /\ \A w \in {w1, w2} :
          /\ ValidatePakistaniPhone(loc[w].normalizedPhone)
          /\ IsValidRole(loc[w].role)
          /\ loc[w].fresh

\* C1: of two concurrent Register calls with the same email and otherwise valid
\* input, exactly one returns success and the other returns an AlreadyExists
\* error, and exactly one user with that email has been created
C1_OneRegistrationWins ==
    \A w1, w2 \in Workers :
        RacingRegisters(w1, w2) =>
            /\ \E a, b \in {w1, w2} :
                  /\ a # b
                  /\ ret[a].err = nil
                  /\ ret[b].err \in AlreadyExists
            /\ Cardinality(UsersWithEmail(loc[w1].email)) = 1

\* the loser passed both pre-checks and lost at the unique-key insert
C1_Witness ==
    \E w1, w2 \in Workers :
        /\ RacingRegisters(w1, w2)
        /\ ret[w1].err = nil
        /\ ret[w2].err = ErrUserAlreadyExists
        /\ ret[w2].at = "Register_Create"

\* C2: no two user records share an email, and no two share a phone in its
\* normalized form
C2_EmailAndPhoneUnique ==
    \A i, j \in UserIdx :
        i # j =>
            /\ users[i].email # users[j].email
            /\ NormalizePakistaniPhone(users[i].phone)
                 # NormalizePakistaniPhone(users[j].phone)

\* "03001234567" was refused for a second email while "+923001234567" is stored
C2_Witness ==
    \E w \in Workers :
        /\ Done(w, "Register")
        /\ loc[w].phone = PhoneLocal
        /\ ret[w].err \in AlreadyExists
        /\ Len(users) = 1
        /\ users[1].phone = PhoneIntl
        /\ users[1].email # loc[w].email

-----------------------------------------------------------------------------
(* Properties of rotation, checked under SpecRefresh *)

RowsWithToken(token) == {i \in RowIdx : refreshTokens[i].token = token}

Revoked(token) == \E i \in RowsWithToken(token) : refreshTokens[i].isRevoked

\* the call returned a pair whose refresh token is stored, unrevoked, for the
\* owner of the presented token
ReturnedNewPair(w) ==
    /\ ret[w].err = nil
    /\ ret[w].access # NoToken /\ ret[w].refresh # NoToken
    /\ \E i \in RowsWithToken(ret[w].refresh) :
          refreshTokens[i].userID = loc[w].token.userID

\* no other worker's call presents the token of w's call
InSequence(w) ==
    \A v \in Workers \ {w} :
        ~(loc[v].op = "RefreshToken" /\ loc[v].token = loc[w].token)

\* C3: of two RefreshToken(t) calls made one after the other, the first, whose t
\* is stored, unrevoked and unexpired, succeeds, returns a new pair and leaves t
\* revoked; the one begun once t is revoked fails with RevokedToken or
\* InvalidToken and returns no token
C3_RefreshTwice ==
    \A w \in Workers :
        Done(w, "RefreshToken") =>
            /\ (loc[w].first /\ loc[w].fresh /\ InSequence(w)
                  /\ ValidateToken(loc[w].token))
                  => (ReturnedNewPair(w) /\ Revoked(loc[w].token))
            /\ (~loc[w].first /\ Revoked(loc[w].token) /\ ~loc[w].fresh)
                  => /\ ret[w].err \in {ErrRevokedToken, ErrInvalidToken}
                     /\ ret[w].access = NoToken /\ ret[w].refresh = NoToken

\* C4: of the RefreshToken calls that present one token string, at most one
\* returns a new pair
C4_TokenSingleUse ==
    \A w1, w2 \in Workers :
        (w1 # w2 /\ Done(w1, "RefreshToken") /\ Done(w2, "RefreshToken")
           /\ loc[w1].token = loc[w2].token)
        => ~(ret[w1].err = nil /\ ret[w2].err = nil)

-----------------------------------------------------------------------------
(* Properties of login, checked under Spec *)

\* the call has passed the guards of Login, or has returned tokens
HasTokens(w) ==
    \/ pc[w] \in {"Login_Create", "Login_UpdateLastLogin"}
    \/ Done(w, "Login") /\ ret[w].err = nil

\* C5: Login hands out tokens for an email only after a VerifyOTP for that
\* email matched the stored code
C5_LoginNeedsOTP ==
    \A w \in Workers : HasTokens(w) => loc[w].email \in otpPassed

C5_Witness ==
    \E w \in Workers :
        /\ Done(w, "Login") /\ ret[w].err = nil
        /\ ret[w].refresh # NoToken
        /\ loc[w].email \in otpPassed

\* the finished Login found the user and was given the user's password
CorrectPassword(w) ==
    /\ Done(w, "Login")
    /\ loc[w].user # NoUser
    /\ CheckPassword(loc[w].user.password, loc[w].password)

\* C6: with the correct password, every unverified user gets UserNotVerified
\* (also when inactive), and UserInactive is returned exactly for a verified,
\* inactive user
C6_VerifiedBeforeActive ==
    \A w \in Workers :
        CorrectPassword(w) =>
            /\ ~loc[w].user.isVerified => ret[w].err = ErrUserNotVerified
            /\ ret[w].err = ErrUserInactive
                 <=> (loc[w].user.isVerified /\ ~loc[w].user.isActive)

\* an unverified, inactive user was told UserNotVerified
C6_Witness ==
    \E w \in Workers :
        /\ CorrectPassword(w)
        /\ ~loc[w].user.isVerified /\ ~loc[w].user.isActive
        /\ ret[w].err = ErrUserNotVerified

InvalidCredentials ==
    [op |-> "Login", err |-> ErrInvalidCredentials, at |-> "Login_FindByEmail",
     access |-> NoToken, refresh |-> NoToken]

\* C7: a Login for an unknown email, or with a wrong password for a user in any
\* state, returns one and the same InvalidCredentials result
C7_NoUserEnumeration ==
    \A w \in Workers :
        (Done(w, "Login")
           /\ (loc[w].user = NoUser
                 \/ ~CheckPassword(loc[w].user.password, loc[w].password)))
        => ret[w] = InvalidCredentials

\* one Login for the unknown email and one with a wrong password for a verified
\* user have returned the same
C7_Witness ==
    \E w1, w2 \in Workers :
        /\ Done(w1, "Login") /\ loc[w1].user = NoUser
        /\ Done(w2, "Login") /\ loc[w2].user # NoUser /\ loc[w2].user.isVerified
        /\ ~CheckPassword(loc[w2].user.password, loc[w2].password)
        /\ ret[w1] = ret[w2]

\* C8: a Login with the correct password for a verified, active user returns
\* two non-empty, different tokens, and exactly one row holds the returned
\* refresh token, owned by the user and not revoked
C8_LoginIssuesPair ==
    \A w \in Workers :
        (CorrectPassword(w) /\ loc[w].user.isVerified /\ loc[w].user.isActive)
        => /\ ret[w].err = nil
           /\ ret[w].access # NoToken /\ ret[w].refresh # NoToken
           /\ ret[w].access # ret[w].refresh
           /\ Cardinality(RowsWithToken(ret[w].refresh)) = 1
           /\ \A i \in RowsWithToken(ret[w].refresh) :
                 /\ refreshTokens[i].userID = loc[w].user.id
                 /\ ~refreshTokens[i].isRevoked

(* Properties of verification, checked under SpecVerify *)

\* w's step is the otpRepo.Get of a VerifyOTP
VerifyOTPGets(w) == pc[w] = "VerifyOTP_Get" /\ pc'[w] # "VerifyOTP_Get"

\* the OTP of the email is absent or its TTL has elapsed
OTPGone(email) == otps[email] = NoOTP \/ now >= otps[email].expiresAt

WrongCodeChangesNothing ==
    \A w \in Workers :
        (VerifyOTPGets(w) /\ ~OTPGone(loc[w].email)
           /\ loc[w].code # otps[loc[w].email].code)
        => /\ pc'[w] = "idle" /\ ret'[w].err = ErrInvalidOTP
           /\ UNCHANGED <<otps, users>>

StoredCodeSucceeds ==
    \A w \in Workers :
        (Done(w, "VerifyOTP") /\ loc[w].storedOTP # <<>>
           /\ loc[w].code = loc[w].storedOTP)
        => ret[w].err = nil /\ FindByEmail(loc[w].email).isVerified

\* C9: a VerifyOTP with a code other than the stored one returns InvalidOTP and
\* changes neither the stored OTP nor any user; a VerifyOTP that presents the
\* stored code while the OTP is live succeeds
C9_WrongCodeKeepsOTP == [][WrongCodeChangesNothing]_vars /\ []StoredCodeSucceeds

\* a wrong attempt and then a successful one on the same stored code
C9_Witness ==
    \E w1, w2 \in Workers :
        /\ Done(w1, "VerifyOTP") /\ ret[w1].err = ErrInvalidOTP
        /\ Done(w2, "VerifyOTP") /\ ret[w2].err = nil
        /\ loc[w1].email = loc[w2].email
        /\ loc[w1].storedOTP = loc[w2].code
        /\ FindByEmail(loc[w2].email).isVerified

OTPNotFoundWhenGone ==
    \A w \in Workers :
        (VerifyOTPGets(w) /\ OTPGone(loc[w].email))
        => /\ pc'[w] = "idle" /\ ret'[w].err = ErrOTPNotFound
           /\ UNCHANGED <<otps, users>>

\* C10: a VerifyOTP for an email with no stored OTP, or whose OTP has outlived
\* its TTL, returns OTPNotFound whatever the code, and changes no user
C10_NoOTPIsNotFound == [][OTPNotFoundWhenGone]_vars

\* the code that used to be stored was presented after the TTL
C10_Witness ==
    \E w \in Workers :
        /\ Done(w, "VerifyOTP") /\ ret[w].err = ErrOTPNotFound
        /\ otps[loc[w].email] # NoOTP
        /\ otps[loc[w].email].code = loc[w].code
        /\ now >= otps[loc[w].email].expiresAt
        /\ ~FindByEmail(loc[w].email).isVerified

-----------------------------------------------------------------------------
(* Properties of verification under outages, checked under SpecOutage *)

Verified(email) == FindByEmail(email) # NoUser /\ FindByEmail(email).isVerified

\* no Register or ResendOTP of another worker stands beside w's call
NoStoreBeside(w) ==
    \A v \in Workers \ {w} : loc[v].op \notin {"Register", "ResendOTP"}

\* C11 as stated: after a successful VerifyOTP the user is verified and no OTP
\* remains stored for the email, and a second VerifyOTP with the same code
\* returns OTPNotFound
C11_VerifiedOTPIsGone ==
    \A w \in Workers :
        Done(w, "VerifyOTP") =>
            /\ ret[w].err = nil => (Verified(loc[w].email) /\ loc[w].left = NoOTP)
            /\ ~loc[w].first => ret[w].err = ErrOTPNotFound

\* C11: after a successful VerifyOTP the user is verified and, if the deletion
\* of the OTP succeeded, no OTP is stored for the email as the call returns; a
\* VerifyOTP that then presents the same code, with nothing stored since,
\* returns OTPNotFound
C11_VerifiedOTPIsDeleted ==
    \A w \in Workers :
        Done(w, "VerifyOTP") =>
            /\ ret[w].err = nil
                 => /\ Verified(loc[w].email)
                    /\ loc[w].deleted => loc[w].left = NoOTP
            /\ (~loc[w].first /\ ~loc[w].fresh /\ NoStoreBeside(w))
                 => ret[w].err = ErrOTPNotFound

\* the code was verified and deleted, and its second presentation found nothing
C11_Witness ==
    \E w1, w2 \in Workers :
        /\ w1 # w2
        /\ Done(w1, "VerifyOTP") /\ ret[w1].err = nil /\ loc[w1].deleted
        /\ Done(w2, "VerifyOTP") /\ ~loc[w2].first /\ ~loc[w2].fresh
        /\ loc[w2].code = loc[w1].code
        /\ ret[w2].err = ErrOTPNotFound
        /\ Up("redis")

-----------------------------------------------------------------------------
(* Properties of a Register that runs by itself, checked under SpecVerify *)

\* no other worker has taken a call
Alone(w) == \A v \in Workers \ {w} : pc[v] = "idle" /\ loc[v] = NoLoc

IsOTPCode(code) == Len(code) = otpLength /\ \A i \in 1..Len(code) : code[i] \in Digits

IsCanonicalPhone(phone) ==
    /\ Len(phone) = 13
    /\ SubSeq(phone, 1, 4) = <<"+", "9", "2", "3">>
    /\ \A i \in 5..13 : phone[i] \in Digits

\* w's step is the otpRepo.Store of a Register
RegisterStores(w) == pc[w] = "Register_StoreOTP" /\ pc'[w] = "Register_SendOTP"

StoredWithTTL ==
    \A w \in Workers :
        RegisterStores(w) =>
            /\ IsOTPCode(loc'[w].otp)
            /\ otps'[loc[w].email] =
                 [code |-> loc'[w].otp,
                  expiresAt |-> now + otpExpireMinutes * SecondsPerMinute]
            /\ OTPLive(loc[w].email)'

RegisteredUnverified ==
    \A w \in Workers :
        (Done(w, "Register") /\ ret[w].err = nil /\ Alone(w)) =>
            /\ Cardinality(UsersWithEmail(loc[w].email)) = 1
            /\ Len(users) = 1
            /\ ~users[1].isVerified /\ users[1].isActive
            /\ users[1].email = loc[w].email
            /\ IsCanonicalPhone(users[1].phone)
            /\ otps[loc[w].email].code = loc[w].otp
            /\ \A e \in Emails \ {loc[w].email} : otps[e] = NoOTP
            /\ outbox = {<<loc[w].email, loc[w].otp>>}

\* C12: a successful Register leaves one new user, unverified and active, with
\* the phone in canonical form, and one OTP for the email, of otpLength decimal
\* digits, stored live with the configured TTL, and has passed that code to
\* SendOTP for the email
C12_RegisterEffects == [][StoredWithTTL]_vars /\ []RegisteredUnverified

\* "03001234567" was registered at a later second than 0
C12_Witness ==
    \E w \in Workers :
        /\ Done(w, "Register") /\ ret[w].err = nil /\ Alone(w)
        /\ loc[w].phone = PhoneLocal /\ users[1].phone = PhoneIntl
        /\ otps[loc[w].email].expiresAt > otpExpireMinutes * SecondsPerMinute
        /\ OTPLive(loc[w].email)

-----------------------------------------------------------------------------
(* Properties of a Register that fails half way, checked under SpecOutage *)

\* the finished Register returned an error after it had created the user
FailedAfterCreate(w) ==
    /\ Done(w, "Register")
    /\ ret[w].err # nil
    /\ ret[w].at \in {"Register_StoreOTP", "Register_SendOTP"}

-----------------------------------------------------------------------------
(* Properties of expired and unknown tokens, checked under SpecExpiry *)

MintsNothing(w) == ret[w].access = NoToken /\ ret[w].refresh = NoToken

\* C14: a RefreshToken whose token's row is stored and not revoked, with the
\* stored expiry passed, returns ExpiredToken
C14_StoredExpiryDecides ==
    \A w \in Workers :
        (Done(w, "RefreshToken") /\ loc[w].fresh /\ loc[w].expired)
        => ret[w].err = ErrExpiredToken

\* C15: a RefreshToken with a signed token that has no row returns InvalidToken,
\* one whose row is revoked returns RevokedToken, also when the row's expiry has
\* passed; neither returns a token
C15_UnknownOrRevoked ==
    \A w \in Workers :
        Done(w, "RefreshToken") =>
            /\ FindByToken(loc[w].token) = NoRow
                 => (ret[w].err = ErrInvalidToken /\ MintsNothing(w))
            /\ loc[w].revoked => (ret[w].err = ErrRevokedToken /\ MintsNothing(w))

-----------------------------------------------------------------------------
(* Properties of ResendOTP, checked under SpecOutage *)

Refusals == {ErrUserNotFound, ErrBadRequest, ErrOTPAlreadySent}

\* worker w takes a step of its ResendOTP call
ResendOTPStep(w) == loc[w].op = "ResendOTP" /\ pc[w] # "idle" /\ pc'[w] # pc[w]

Refuses(w, err) == pc'[w] = "idle" /\ ret'[w].err = err

GuardsInOrder ==
    \A w \in Workers :
        ResendOTPStep(w) =>
            LET user == FindByEmail(loc[w].email)
            IN  /\ pc[w] = "ResendOTP_FindByEmail" =>
                      /\ user = NoUser => Refuses(w, ErrUserNotFound)
                      /\ (user # NoUser /\ user.isVerified) => Refuses(w, ErrBadRequest)
                      /\ (user # NoUser /\ ~user.isVerified) => pc'[w] = "ResendOTP_Exists"
                /\ (pc[w] = "ResendOTP_Exists" /\ Up("redis") /\ OTPLive(loc[w].email))
                      => Refuses(w, ErrOTPAlreadySent)
                /\ (pc'[w] = "idle" /\ ret'[w].err \in Refusals)
                      => (loc[w].otp = "" /\ UNCHANGED <<otps, outbox>>)

\* a call refused with OTPAlreadySent has read an existing, unverified user
LiveOTPCheckedLast ==
    \A w \in Workers :
        (Done(w, "ResendOTP") /\ ret[w].err = ErrOTPAlreadySent)
        => (loc[w].user # NoUser /\ ~loc[w].user.isVerified)

\* C16: ResendOTP answers an unknown email with UserNotFound, a verified
\* user with BadRequest (also when an OTP is live) and, Redis answering, an
\* unverified user with a live OTP with OTPAlreadySent; a refused call has
\* stored no OTP, leaves the stored OTPs as they are and sends nothing
C16_ResendGuards == [][GuardsInOrder]_vars /\ []LiveOTPCheckedLast

\* a verified user whose OTP is still live is answered with BadRequest
C16_Witness ==
    \E w \in Workers :
        /\ Done(w, "ResendOTP") /\ ret[w].err = ErrBadRequest
        /\ ret[w].at = "ResendOTP_FindByEmail"
        /\ OTPLive(loc[w].email)

\* Exists: the remaining TTL of the stored OTP decides
RefusedDuringTTL ==
    \A w \in Workers :
        (ResendOTPStep(w) /\ pc[w] = "ResendOTP_Exists") =>
            LET stored == otps[loc[w].email]
            IN  /\ ~loc[w].user.isVerified
                /\ IF stored # NoOTP /\ now < stored.expiresAt
                   THEN Refuses(w, ErrOTPAlreadySent) /\ UNCHANGED <<otps, outbox>>
                   ELSE pc'[w] = "ResendOTP_Store"

\* Store and SendOTP: a new code with the whole TTL, then sent
FreshCodeAfterTTL ==
    \A w \in Workers :
        ResendOTPStep(w) =>
            /\ pc[w] = "ResendOTP_Store" =>
                  /\ IsOTPCode(loc'[w].otp)
                  /\ otps'[loc[w].email] =
                       [code |-> loc'[w].otp,
                        expiresAt |-> now + otpExpireMinutes * SecondsPerMinute]
                  /\ pc'[w] = "ResendOTP_SendOTP"
            /\ pc[w] = "ResendOTP_SendOTP" =>
                  /\ <<loc[w].email, loc[w].otp>> \in outbox'
                  /\ Refuses(w, nil)

\* C17: for an unverified user, ResendOTP is refused with OTPAlreadySent
\* whenever the stored OTP has TTL left, up to its last second; when the TTL
\* has elapsed the call stores a new code with the full TTL, sends it and
\* succeeds
C17_BlockedForWholeTTL == [][RefusedDuringTTL /\ FreshCodeAfterTTL]_vars

\* one ResendOTP was refused, another succeeded once the TTL of the OTP of
\* Register had elapsed and stored a code that lives for the full TTL again
C17_Witness ==
    \E w, v \in Workers :
        /\ Done(v, "ResendOTP") /\ ret[v].err = ErrOTPAlreadySent
        /\ Done(w, "ResendOTP") /\ ret[w].err = nil
        /\ loc[w].email = loc[v].email
        /\ now = otpExpireMinutes * SecondsPerMinute
        /\ otps[loc[w].email] =
             [code |-> loc[w].otp, expiresAt |-> now + otpExpireMinutes * SecondsPerMinute]

-----------------------------------------------------------------------------
(* Properties of the login limiter, checked under SpecSequentialLimiter and *)
(* SpecLimiter                                                              *)

\* the check of worker w's request was answered by Redis
Checked(w) ==
    /\ loc[w].op = "LoginRateLimiter"
    /\ pc[w] # "LoginRateLimiter_CheckRateLimit"
    /\ ~(Done(w, "LoginRateLimiter") /\ ret[w].err = ErrInternalServer)

Disallowed(w) == Done(w, "LoginRateLimiter") /\ ret[w].err = ErrTooManyLoginAttempts

\* C18: with requests in sequence on a key, a check inside the window that
\* the key's first increment opened is allowed exactly when fewer than
\* LoginRequestsPerMinute requests were counted, and a check made when the
\* window has elapsed is allowed
C18_LimitedKeyRecovers ==
    \A w \in Workers :
        Checked(w) =>
            IF loc[w].elapsed
            THEN ~Disallowed(w)
            ELSE Disallowed(w) <=> ret[w].at = "LoginRateLimiter_CheckRateLimit"
                                   /\ loc[w].count >= LoginRequestsPerMinute

\* no request is between its INCR and its EXPIRE on the key
NoExpirePending(key) ==
    \A w \in Workers : ~(pc[w] = "LoginRateLimiter_Expire" /\ loc[w].key = key)

\* C20: only a request whose INCR returned 1 goes on to EXPIRE, and once it
\* has returned the key's counter ends loginWindowSeconds after the
\* increment that created it, however many increments followed
C20_WindowAnchoredToFirstUse ==
    /\ \A w \in Workers : pc[w] = "LoginRateLimiter_Expire" => loc[w].counted = 1
    /\ \A key \in RateLimitKeys :
          (CounterLive(key) /\ NoExpirePending(key)) =>
              rateLimits[key].expiresAt = rateLimits[key].since + loginWindowSeconds

\* worker w's request has passed its check
Allowed(w) ==
    \/ pc[w] \in {"LoginRateLimiter_Increment", "LoginRateLimiter_Expire"}
    \/ /\ Done(w, "LoginRateLimiter")
       /\ ret[w].at \in {"LoginRateLimiter_Increment", "LoginRateLimiter_Expire"}

\* C19: every request that passes its check has read a count below the
\* limit, yet the counter of one window can exceed the limit, by less than
\* the number of concurrent requests
C19_ApproximateLimit ==
    /\ \A w \in Workers : Allowed(w) => loc[w].count < LoginRequestsPerMinute
    /\ \A key \in RateLimitKeys :
          rateLimits[key].count < LoginRequestsPerMinute + Cardinality(Workers)

\* more than LoginRequestsPerMinute requests were let through and counted in
\* one window, the last two having checked before either incremented
C19_Witness ==
    \E key \in RateLimitKeys :
        /\ CounterLive(key)
        /\ rateLimits[key].expiresAt = rateLimits[key].since + loginWindowSeconds
        /\ rateLimits[key].count > LoginRequestsPerMinute
        /\ \A w \in Workers :
              /\ Done(w, "LoginRateLimiter") /\ ret[w].err = nil /\ loc[w].key = key
              /\ loc[w].count = LoginRequestsPerMinute - 1

-----------------------------------------------------------------------------
(* Properties of the token issuer, checked under SpecTokens *)

-----------------------------------------------------------------------------
(* Properties of the refresh token store, checked under SpecRefresh *)

\* every row is still there after a step, the same but for is_revoked,
\* which stays true once true
RowsKept ==
    \A i \in RowIdx :
        /\ i <= Len(refreshTokens')
        /\ refreshTokens'[i].token = refreshTokens[i].token
        /\ refreshTokens'[i].userID = refreshTokens[i].userID
        /\ refreshTokens'[i].expiresAt = refreshTokens[i].expiresAt
        /\ refreshTokens[i].isRevoked => refreshTokens'[i].isRevoked

\* the refresh token a call has returned has its row
ReturnedTokenHasRow ==
    \A w \in Workers :
        (pc[w] = "idle" /\ ret[w].refresh # NoToken)
        => \E i \in RowIdx : refreshTokens[i].token = ret[w].refresh

\* C22: no step removes a refresh-token row or sets is_revoked back to
\* false, and the row of every token returned by Login or RefreshToken is
\* in the store
C22_RowsNeverRemoved == [][RowsKept]_vars /\ []ReturnedTokenHasRow

\* a rotation has revoked the first row and added a second one
C22_Witness ==
    /\ Len(refreshTokens) >= 2
    /\ refreshTokens[1].isRevoked
    /\ ~refreshTokens[2].isRevoked
    /\ \E w \in Workers :
          /\ Done(w, "RefreshToken") /\ ret[w].err = nil
          /\ loc[w].token = refreshTokens[1].token
          /\ ret[w].refresh = refreshTokens[2].token

-----------------------------------------------------------------------------
(* Properties of is_verified, checked under Spec *)

\* worker w, having read a stored OTP equal to the code of its request,
\* updates the verification status of the email
VerifiesByMatch(w, email) ==
    /\ pc[w] = "VerifyOTP_UpdateVerificationStatus"
    /\ pc'[w] = "VerifyOTP_Delete"
    /\ loc[w].email = email
    /\ loc[w].storedOTP = loc[w].code

VerifiedOnce ==
    /\ \A i \in UserIdx :
          /\ users[i].isVerified => users'[i].isVerified
          /\ (~users[i].isVerified /\ users'[i].isVerified)
                => \E w \in Workers : VerifiesByMatch(w, users[i].email)
    /\ \A i \in 1..Len(users') : i \notin UserIdx => ~users'[i].isVerified

\* C23: a user is created unverified; is_verified becomes true only in the
\* step of a VerifyOTP whose code matched the stored one, and no step of
\* any operation makes it false again, so that it becomes true at most once
C23_VerifiedExactlyOnce == [][VerifiedOnce]_vars

\* two VerifyOTP calls with the right code have both succeeded
C23_Witness ==
    /\ \A w \in Workers :
          /\ Done(w, "VerifyOTP") /\ ret[w].err = nil
          /\ loc[w].email = AccountRequest.email
          /\ ret[w].at = "VerifyOTP_Delete"
    /\ FindByEmail(AccountRequest.email).isVerified

-----------------------------------------------------------------------------
(* Properties of store failures, checked under SpecStores *)

\* the Login of worker w has come to UpdateLastLogin and found MongoDB
\* unreachable there
LastLoginFailed(w) ==
    /\ Done(w, "Login")
    /\ ret[w].at = "Login_UpdateLastLogin"
    /\ loc[w].unreachable

\* C24: a Login whose UpdateLastLogin fails returns the token pair it
\* generated, the row of its refresh token is stored, and last_login_at is
\* left as it was read: the update is not tried again
C24_LastLoginBestEffort ==
    \A w \in Workers :
        LastLoginFailed(w) =>
            /\ ret[w].err = nil
            /\ ret[w].access = loc[w].access /\ ret[w].access # NoToken
            /\ ret[w].refresh = loc[w].refresh /\ ret[w].refresh # NoToken
            /\ \E i \in RowIdx : refreshTokens[i] = loc[w].row
                                 /\ refreshTokens[i].token = ret[w].refresh
            /\ users[loc[w].user.id].lastLogin = loc[w].user.lastLogin

C24_Witness ==
    \E w \in Workers :
        /\ LastLoginFailed(w)
        /\ ret[w].err = nil
        /\ users[loc[w].user.id].lastLogin = -1
        /\ Up("mongo")

\* the errors of the domain that stand for a wrong or absent input
DomainErrors ==
    {ErrInvalidCredentials, ErrOTPNotFound, ErrInvalidOTP, ErrInvalidToken, ErrExpiredToken,
     ErrRevokedToken, ErrUserNotFound, ErrUserNotVerified, ErrUserInactive, ErrBadRequest,
     ErrOTPAlreadySent}

\* a store call of worker w's request found its store unreachable, and the
\* request ended there
StoreCallFailed(w) ==
    /\ pc[w] = "idle"
    /\ ret[w].op \in {"Login", "VerifyOTP", "RefreshToken", "ResendOTP"}
    /\ loc[w].unreachable
    /\ ~LastLoginFailed(w)

\* C25: a Login, VerifyOTP, RefreshToken or ResendOTP that a failing store
\* call has ended returns the failure of the store, not an error of the
\* domain
C25_StoreFailureIsInternal ==
    \A w \in Workers :
        StoreCallFailed(w) => (ret[w].err # nil /\ ret[w].err \notin DomainErrors)

-----------------------------------------------------------------------------
(* Properties of phone numbers, checked under SpecRegister *)

\* C26: the phone of every stored user is "+923" followed by nine decimal
\* digits
C26_StoredPhoneCanonical == \A i \in UserIdx : IsCanonicalPhone(users[i].phone)

\* a Register whose request wrote the number without "+" and with a dash
\* has stored its user
C26_Witness ==
    \E w \in Workers :
        /\ Done(w, "Register") /\ ret[w].err = nil
        /\ loc[w].phone = PhoneOther
        /\ "-" \in {loc[w].phone[i] : i \in 1..Len(loc[w].phone)}
        /\ \E i \in UserIdx : users[i].email = loc[w].email
                              /\ users[i].phone # loc[w].phone

(* Properties of the phone functions, checked under SpecPhones *)

SameNumber(p, q) == \E n \in NationalNumbers : {p, q} \subseteq SurfaceForms(n)

IsSurfaceForm(p) == \E n \in NationalNumbers : p \in SurfaceForms(n)

Normalized(w) == loc[w].op = "NormalizePakistaniPhone"

Renormalized(w) ==
    /\ Normalized(w)
    /\ pc[w] \in {"ValidatePakistaniPhone", "idle"}

Validated(w) == Done(w, "NormalizePakistaniPhone") /\ Normalized(w)

\* C27: the three forms of one number normalize to one value, which passes
\* validation; normalizing the result again returns it unchanged; the number
\* with a digit missing fails validation after normalization
C27_NormalizationCanonical ==
    /\ \A w, v \in Workers :
           Normalized(w) /\ Normalized(v) /\ SameNumber(loc[w].phone, loc[v].phone)
               => loc[w].normalizedPhone = loc[v].normalizedPhone
    /\ \A w \in Workers :
           Renormalized(w) => loc[w].renormalized = loc[w].normalizedPhone
    /\ \A w \in Workers :
           Validated(w) /\ IsSurfaceForm(loc[w].phone) => ret[w].err = nil
    /\ \A w \in Workers :
           Validated(w) /\ loc[w].phone = PhoneShort => ret[w].err = ErrInvalidPhoneFormat

\* the local form and the form without "+" of one number have both been
\* normalized and validated
C27_Witness ==
    \E w, v \in Workers :
        /\ Validated(w) /\ Validated(v)
        /\ SameNumber(loc[w].phone, loc[v].phone)
        /\ HasPrefix(loc[w].phone, <<"0", "3">>)
        /\ HasPrefix(loc[v].phone, <<"9", "2", "3">>)
        /\ loc[w].normalizedPhone = loc[v].normalizedPhone
        /\ ret[w].err = nil /\ ret[v].err = nil

(* Properties of the login route, checked under SpecLoginRoute *)

\* the Login use case was invoked for w's request
LoginInvoked(w) == loc[w].op = "Login" /\ loc[w].key # <<>>

\* the check of w's request read a count at the limit or above it
CheckNotAllowed(w) ==
    /\ loc[w].key # <<>>
    /\ loc[w].count >= LoginRequestsPerMinute

RefusedUncounted ==
    \A w \in Workers :
        CheckNotAllowed(w) => /\ Disallowed(w)
                              /\ ~LoginInvoked(w)
                              /\ loc[w].counted = 0

ReachedAuth(w) ==
    /\ loc[w].op = "Protected"
    /\ \/ pc[w] \in {"AuthMiddleware", "RoleMiddleware", "Handler"}
       \/ Done(w, "Protected") /\ ret[w].at \in {"AuthMiddleware", "RoleMiddleware", "Handler"}

\* the handler of w's request has been called
HandlerRuns(w) ==
    /\ loc[w].op = "Protected"
    /\ pc[w] = "Handler" \/ (Done(w, "Protected") /\ ret[w].at = "Handler")

\* the header of w's request is "Bearer <token>" with a token that validates
BearsValidToken(w) ==
    /\ Len(loc[w].header) = 2
    /\ loc[w].header[1] = "Bearer"
    /\ ValidateToken(loc[w].header[2])

\* the roles the routes are documented to admit
RoleAdmitted(route, role) ==
    \/ route = "/auth/profile"
    \/ route = "/admin/users" /\ role = "admin"
    \/ route = "/finance/reports" /\ role \in {"admin", "finance_manager"}
    \/ route = "/manager/dashboard" /\ role \in {"admin", "manager"}

\* C29: a handler runs only for a "Bearer" header with a token that validates
\* and whose role the route admits; a request that reaches AuthMiddleware
\* without such a header is answered 401 there, and one with a valid token of
\* a role the route does not admit is answered 403 by RoleMiddleware
C29_HandlerNeedsTokenAndRole ==
    \A w \in Workers :
        /\ HandlerRuns(w) =>
               /\ BearsValidToken(w)
               /\ RoleAdmitted(loc[w].route, loc[w].header[2].role)
        /\ Done(w, "Protected") /\ ReachedAuth(w) /\ ~BearsValidToken(w) =>
               /\ ret[w].at = "AuthMiddleware"
               /\ HTTPStatus(ret[w].err) = 401
        /\ Done(w, "Protected") /\ ReachedAuth(w) /\ BearsValidToken(w)
             /\ ~RoleAdmitted(loc[w].route, loc[w].header[2].role) =>
               /\ ret[w].at = "RoleMiddleware"
               /\ HTTPStatus(ret[w].err) = 403

\* the finance reports were served to a finance manager
C29_Witness ==
    \E w \in Workers :
        /\ Done(w, "Protected") /\ ret[w].at = "Handler" /\ ret[w].err = nil
        /\ loc[w].route = "/finance/reports"
        /\ loc[w].claims.role = "finance_manager"

\* w's request carries an access token that validates
BearsValidAccessToken(w) == BearsValidToken(w) /\ loc[w].header[2].email # ""

\* C30: a counted request that carries a valid access token was counted
\* under "user:" and the id of the token, any other counted request under
\* "ip:" and the client address
C30_CountedPerIdentity ==
    \A w \in Workers :
        loc[w].op = "Protected" /\ loc[w].counted >= 1 =>
            loc[w].key = IF BearsValidAccessToken(w)
                         THEN <<"user:", ToString(loc[w].header[2].userID)>>
                         ELSE <<"ip:", loc[w].ip>>

(* Order of the checks of Register, checked under SpecRegister *)

\* w's Register leaves the step at label with err
Answers(w, label, err) ==
    /\ pc[w] = label
    /\ pc'[w] = "idle"
    /\ ret'[w].op = "Register" /\ ret'[w].err = err /\ ret'[w].at = label

PhoneAccepted(w) == ValidatePakistaniPhone(NormalizePakistaniPhone(loc[w].phone))

ChecksInOrder ==
    \A w \in Workers :
        /\ pc[w] = "Register_Validate" /\ pc'[w] # pc[w] =>
               /\ UNCHANGED <<users, otps, outbox>>
               /\ IF ~PhoneAccepted(w) THEN Answers(w, "Register_Validate", ErrInvalidPhoneFormat)
                  ELSE IF loc[w].role \notin ValidRoles
                  THEN Answers(w, "Register_Validate", ErrInvalidRole)
                  ELSE pc'[w] = "Register_FindByEmail"
        /\ pc[w] = "Register_FindByEmail" /\ pc'[w] # pc[w] =>
               IF \E i \in UserIdx : users[i].email = loc[w].email
               THEN Answers(w, "Register_FindByEmail", ErrUserAlreadyExists)
               ELSE pc'[w] = "Register_FindByPhone"
        /\ pc[w] = "Register_FindByPhone" /\ pc'[w] # pc[w] =>
               IF \E i \in UserIdx : users[i].phone = NormalizePakistaniPhone(loc[w].phone)
               THEN Answers(w, "Register_FindByPhone", ErrPhoneAlreadyExists)
               ELSE pc'[w] = "Register_Create"

\* a Register refused for its phone or its role returned from the validation
\* step, which no store call precedes
RefusedBeforeStores ==
    \A w \in Workers :
        Done(w, "Register") /\ ret[w].err \in {ErrInvalidPhoneFormat, ErrInvalidRole}
            => ret[w].at = "Register_Validate"

\* C31: Register checks the phone, then the role, then the email, then the
\* phone's owner, each check answering with its own error whatever the later
\* checks would say; the validation step changes no store and precedes
\* every store call
C31_RegisterCheckOrder == [][ChecksInOrder]_vars /\ []RefusedBeforeStores

\* a Register with a short phone and an unknown role was refused for the
\* phone, while another was refused for an email whose phone is taken too
C31_Witness ==
    \E w, v \in Workers :
        /\ Done(w, "Register") /\ ret[w].err = ErrInvalidPhoneFormat
        /\ loc[w].phone = PhoneShort /\ loc[w].role \notin ValidRoles
        /\ Done(v, "Register") /\ ret[v].err = ErrUserAlreadyExists
        /\ ret[v].at = "Register_FindByEmail"
        /\ \E i \in UserIdx : users[i].phone = NormalizePakistaniPhone(loc[v].phone)

(* Effects of a failed Login, checked under Spec *)

\* w's step is one of a Login
LoginStep(w) ==
    /\ pc[w] \in {"Login_FindByEmail", "Login_Create", "Login_UpdateLastLogin"}
    /\ pc'[w] # pc[w]

\* a step of a Login writes only when the Login goes on or returns success
FailedStepWritesNothing ==
    \A w \in Workers :
        /\ LoginStep(w) /\ pc'[w] = "idle" /\ ret'[w].err # nil
               => UNCHANGED <<users, refreshTokens>>
        /\ LoginStep(w) /\ users' # users
               => pc[w] = "Login_UpdateLastLogin" /\ ret'[w].err = nil
        /\ LoginStep(w) /\ refreshTokens' # refreshTokens
               => pc[w] = "Login_Create" /\ pc'[w] = "Login_UpdateLastLogin"

\* a Login that returned an error returned before the row of its refresh
\* token was written
FailedBeforeCreate ==
    \A w \in Workers :
        Done(w, "Login") /\ ret[w].err # nil =>
            /\ ret[w].at \in {"Login_FindByEmail", "Login_Create"}
            /\ loc[w].row = NoRow
            /\ ret[w].access = NoToken /\ ret[w].refresh = NoToken

\* C32: a Login that returns an error has written neither a refresh-token
\* row nor last_login_at
C32_FailedLoginWritesNothing == [][FailedStepWritesNothing]_vars /\ []FailedBeforeCreate

\* a Login of the verified account with the right password was refused
\* because the account is inactive
C32_Witness ==
    \E w \in Workers :
        /\ Done(w, "Login") /\ ret[w].err = ErrUserInactive
        /\ loc[w].user # NoUser /\ loc[w].user.isVerified
        /\ users[loc[w].user.id].lastLogin = loc[w].user.lastLogin

(* Effects of a failed RefreshToken, checked under SpecStores, where one    *)
(* client calls after the other                                             *)

\* w's RefreshToken, begun with the presented token stored and unrevoked,
\* returned an error
FailedRefresh(w) == Done(w, "RefreshToken") /\ ret[w].err # nil /\ loc[w].fresh

\* C33 as stated: a RefreshToken that returns an error leaves the presented
\* token unrevoked
C33_FailedRefreshKeepsToken ==
    \A w \in Workers : FailedRefresh(w) => ~Revoked(loc[w].token)

FailedStepKeepsRows ==
    \A w \in Workers :
        loc[w].op = "RefreshToken" /\ pc[w] # "idle" /\ pc'[w] = "idle"
            /\ ret'[w].err # nil
        => UNCHANGED refreshTokens

RevokedOnlyPastRevoke ==
    \A w \in Workers :
        FailedRefresh(w) =>
            /\ MintsNothing(w)
            /\ Revoked(loc[w].token) <=> ret[w].at = "RefreshToken_Create"

\* C33, amended: the step that ends a RefreshToken with an error writes
\* nothing, and the presented token is left revoked without a replacement
\* exactly when the error is that of persisting the new row
C33_RevokedBeforePersisted == [][FailedStepKeepsRows]_vars /\ []RevokedOnlyPastRevoke

\* MongoDB became unreachable between Revoke and Create
C33_Witness ==
    \E w \in Workers :
        /\ FailedRefresh(w)
        /\ ret[w].at = "RefreshToken_Create" /\ ret[w].err = ErrMongo
        /\ Revoked(loc[w].token)
        /\ \A i \in RowIdx : refreshTokens[i].isRevoked

(* Who tokens are issued to, checked under SpecSessions *)

\* w's Login or RefreshToken has generated its token pair; user is the record
\* the call read from the store in the step that generated it
Issued(w) == loc[w].op \in {"Login", "RefreshToken"} /\ loc[w].access # NoToken

\* C34: a token pair is generated only for a user whom the store shows
\* verified and active at that moment
C34_IssuedToVerifiedActive ==
    \A w \in Workers : Issued(w) => loc[w].user.isVerified /\ loc[w].user.isActive

(* Token kinds, checked under SpecProtected *)

\* C35: a protected handler runs only for a token that GenerateAccessToken
\* minted, never for a refresh token
C35_HandlerNeedsAccessToken ==
    \A w \in Workers :
        HandlerRuns(w) =>
            \E id \in TokenUserIDs, role \in ValidRoles :
                loc[w].token = GenerateAccessToken(id, "a@x.com", role)

(* OTPs and accounts, checked under SpecVerify *)

\* C36: an email with a live OTP has a user record, and a VerifyOTP that
\* returned success was for an email whose user exists and is verified
C36_OTPOnlyForAccounts ==
    /\ \A email \in Emails :
           otps[email] # NoOTP /\ now < otps[email].expiresAt
               => \E i \in UserIdx : users[i].email = email
    /\ \A w \in Workers :
           Done(w, "VerifyOTP") /\ ret[w].err = nil
               => \E i \in UserIdx : users[i].email = loc[w].email /\ users[i].isVerified

\* the account was verified with its OTP, and a ResendOTP for the email that
\* was never registered was refused and stored nothing
C36_Witness ==
    \E w, v \in Workers :
        /\ Done(w, "VerifyOTP") /\ ret[w].err = nil
        /\ Done(v, "ResendOTP") /\ ret[v].err = ErrUserNotFound
        /\ FindByEmail(loc[v].email) = NoUser
        /\ otps[loc[v].email] = NoOTP

\* C37: whenever no call is in flight, a verified user has no live OTP
C37_VerifiedHasNoOTP ==
    (\A w \in Workers : pc[w] = "idle")
        => \A i \in UserIdx :
               users[i].isVerified
                   => ~(otps[users[i].email] # NoOTP /\ now < otps[users[i].email].expiresAt)

(* Minted refresh tokens, checked under SpecSessions *)

\* w is about to persist, or has just failed to persist, the refresh token it
\* minted
Minted(w) ==
    \/ pc[w] \in {"Login_Create", "RefreshToken_Create"}
    \/ pc[w] = "idle" /\ ret[w].at \in {"Login_Create", "RefreshToken_Create"}
                      /\ ret[w].err # nil

\* C38: a refresh token minted by a Login or RefreshToken call differs from
\* every token string minted by another call, so no row holds its string, no
\* two rows hold one string, and no call fails with a duplicate key
C38_MintedTokensDistinct ==
    /\ \A i, j \in DOMAIN refreshTokens :
           refreshTokens[i].token = refreshTokens[j].token => i = j
    /\ \A w \in Workers :
           /\ Minted(w) => \A i \in DOMAIN refreshTokens :
                               refreshTokens[i].token # loc[w].refresh
           /\ ret[w].err # ErrDuplicateKey

(* Expiry of the counters, checked under SpecLimiter *)

\* C39: every rate-limit counter that exists with a count of at least 1 has
\* an expiry set
C39_CountersHaveExpiry ==
    \A key \in RateLimitKeys :
        CounterLive(key) /\ rateLimits[key].count >= 1 => rateLimits[key].expiresAt # -1

(* The overshoot of the limiter, checked under SpecBusyLimiter *)

\* the requests on the key that passed their check and have not yet
\* incremented
PendingIncrement(key) ==
    {w \in Workers : pc[w] = "LoginRateLimiter_Increment" /\ loc[w].key = key}

\* the requests let through in the key's current window: those counted and
\* those about to be
Admitted(key) == CounterGet(key) + Cardinality(PendingIncrement(key))

\* the step that refuses a request leaves every counter as it is
DeniedLeavesCounters ==
    \A w \in Workers :
        (pc[w] = "LoginRateLimiter_CheckRateLimit" /\ pc'[w] = "idle"
            /\ ret'[w].err = ErrTooManyLoginAttempts)
        => UNCHANGED rateLimits

OvershootBelowWorkers ==
    /\ \A key \in RateLimitKeys :
          Admitted(key) <= LoginRequestsPerMinute + Cardinality(Workers) - 1
    /\ \A w \in Workers : Disallowed(w) => loc[w].counted = 0

\* C40: with Redis answering every call, the requests admitted on a key
\* within one window never number more than the limit plus the number of
\* workers less one, and a refused request does not increase the counter
C40_OvershootBounded == [][DeniedLeavesCounters]_vars /\ []OvershootBelowWorkers

\* the window's counter stands at limit + W - 1, and the request that came
\* next read that count, was refused and left it there
C40_Witness ==
    \E key \in RateLimitKeys, w \in Workers :
        /\ CounterLive(key)
        /\ rateLimits[key].count = LoginRequestsPerMinute + Cardinality(Workers) - 1
        /\ Disallowed(w) /\ loc[w].key = key
        /\ loc[w].count = rateLimits[key].count
        /\ \A v \in Workers : pc[v] = "idle"

====
